---- MODULE Spec2Model ----
(***************************************************************************)
(* Role-assignment reconciliation for a key vault and its storage          *)
(* accounts (crosstache, xfunction):                                       *)
(*   function_app.py            direct_vault_rbac_processor (orchestrator) *)
(*   vault_role_manager.py      VaultRoleManager                           *)
(*   storage_role_manager.py    StorageRoleManager                         *)
(* The access-control provider, the storage inventory and the directory    *)
(* are the environment: their answers are nondeterministic, within a       *)
(* budget of injected faults and of writes by another writer.              *)
(***************************************************************************)
EXTENDS Integers, Sequences, FiniteSets, TLC

VARIABLES
    role_assignments,   \* provider: the set of role assignments
    vault_tag,          \* the vault's CreatedByID tag (None when missing)
    accounts_in_rg,     \* inventory: storage accounts of the vault's resource group
    faults,             \* number of provider/directory faults injected so far
    other_writes,       \* number of writes made by another writer so far
    runs,               \* number of requests received so far
    orc,                \* per invocation: frame of direct_vault_rbac_processor
    rec,                \* per invocation: frame of the per-pair reconciler
    har,                \* per invocation: frame of a direct use of the reconciler
    trace,              \* per invocation: the calls issued so far (history)
    call                \* a direct call of one of the helper functions

vars == <<role_assignments, vault_tag, accounts_in_rg, faults, other_writes,
          runs, orc, rec, har, trace, call>>

----------------------------------------------------------------------------
(* Bounds *)

\* faults injected plus writes by another writer, over one behaviour
MaxDisturbances == 1
MaxRuns == 2
MaxCalls == 2
MaxAccounts == 2
\* direct calls of the helpers: accounts in the resource group, and the length
\* of the short strings given to _normalize_guid
MaxFnAccounts == 3
MaxTextLen == 3
\* concurrent runs: accounts in the vault's resource group
MaxConcurrentAccounts == 1

Procs == {1, 2}

None == "None"

\* disturbances the environment may still cause
Budget == MaxDisturbances - faults - other_writes

----------------------------------------------------------------------------
(* Role catalog *)

owner_role_id == "8e3af657-a8ff-443c-a75c-2fe8c4bcb635"
admin_role_id == "00482a5a-887f-4fb3-b363-3b7fe8e74483"
STORAGE_ACCOUNT_CONTRIBUTOR_ROLE_ID == "17d1049b-9a84-46fb-8f53-869881c3d3ab"
STORAGE_BLOB_DATA_OWNER_ROLE_ID == "b7e6dc6d-f1e8-4753-8033-0f276bb0955c"
STORAGE_BLOB_DATA_CONTRIBUTOR_ROLE_ID == "ba92f5b4-2d11-453d-a403-e96b0029c9fe"
\* a built-in role outside the catalog (Reader), held only through the environment
reader_role_id == "acdd72a7-3385-48ef-bd42-f606fba81ae7"

\* f"/subscriptions/{subscription_id}/providers/Microsoft.Authorization/roleDefinitions/{role_id}"
RoleDefinitionId(subscription_id, role_id) == <<subscription_id, role_id>>

\* role_id in role_definition_id (substring test on the formatted id)
RoleIdIn(role_id, role_definition_id) == role_definition_id[2] = role_id

----------------------------------------------------------------------------
(* Identifiers.  An identifier string is kept as its shape: form "guid" is  *)
(* the 8-4-4-4-12 form, "hex32" the same 32 digits without separators,      *)
(* "upn" a principal name; upper tells whether it has upper-case letters.   *)

Ident(form, base, upper) == [form |-> form, base |-> base, upper |-> upper]

U1 == Ident("guid", "u1", FALSE)
U2 == Ident("guid", "u2", FALSE)
U3 == Ident("guid", "u3", FALSE)
U4 == Ident("guid", "u4", FALSE)
Alice == Ident("upn", "alice", FALSE)
Bob == Ident("upn", "bob", FALSE)
\* no identifier: None, or a missing tag
NoIdent == Ident("none", "", FALSE)

\* str.lower()
Lower(s) == [s EXCEPT !.upper = FALSE]

\* uuid.UUID(value) succeeds
IsGuid(value) == value.form \in {"guid", "hex32"}

\* replace('-', '') then re-hyphenate when 32 characters remain; the names of
\* form "upn" hold no '-', so the replacement leaves them as they are
NormalizeGuid(guid_str) ==
    IF guid_str.form \in {"guid", "hex32"}
    THEN [guid_str EXCEPT !.form = "guid"]
    ELSE guid_str

\* directory: userPrincipalName -> object id
DirectoryUsers == [n \in {"alice"} |-> U1]

\* directory: object id -> catalog holding it
PrincipalCatalog ==
    [b \in {"u1", "u2", "u3"} |->
        CASE b = "u1" -> "User" [] b = "u2" -> "Group" [] b = "u3" -> "ServicePrincipal"]

----------------------------------------------------------------------------
(* Resource ids, kept as the result of split('/') *)

SubscriptionId == "sub"
ResourceGroup == "Vaults"
VaultName == "kv"

VaultResourceId ==
    <<"", "subscriptions", SubscriptionId, "resourceGroups", ResourceGroup,
      "providers", "Microsoft.KeyVault", "vaults", VaultName>>

StorageResourceId(name) ==
    <<"", "subscriptions", SubscriptionId, "resourceGroups", ResourceGroup,
      "providers", "Microsoft.Storage", "storageAccounts", name>>

----------------------------------------------------------------------------
(* Access-control provider *)

Assignment(name, scope, principal_id, role_definition_id) ==
    [name |-> name, scope |-> scope, principal_id |-> principal_id,
     role_definition_id |-> role_definition_id]

\* role_assignments.list_for_scope(scope, filter="atScope()")
ListForScope(scope) == {a \in role_assignments : a.scope = scope}

\* the provider holds an assignment with this logical identity
Held(scope, principal_id, role_definition_id) ==
    \E a \in role_assignments :
        /\ a.scope = scope
        /\ a.principal_id = principal_id
        /\ a.role_definition_id = role_definition_id

\* str(uuid.uuid4()): a name no assignment uses
FreshName ==
    CHOOSE n \in 1..(Cardinality(role_assignments) + 1) :
        /\ \A a \in role_assignments : a.name # n
        /\ \A m \in 1..(n - 1) : \E a \in role_assignments : a.name = m

\* the order in which the provider lists a set of assignments
RECURSIVE ListOrder(_)
ListOrder(S) ==
    IF S = {} THEN <<>>
    ELSE LET first == CHOOSE a \in S : \A b \in S : a.name <= b.name
         IN <<first>> \o ListOrder(S \ {first})

\* faulty variant: the delete removes every assignment of the named one's principal
AfterDelete_principal(scope, name) ==
    {a \in role_assignments :
        \A b \in role_assignments : b.name = name => a.principal_id # b.principal_id}

\* role_assignments.delete(scope, role_assignment_name)
AfterDelete(scope, name) ==
    {a \in role_assignments : ~(a.scope = scope /\ a.name = name)}

\* faulty variant: the provider accepts a second assignment of a held identity
CreateOutcomes_accept_duplicate(scope, principal_id, role_definition_id) ==
    {"ok"} \cup (IF Budget > 0 THEN {"PrincipalNotFound", "error"} ELSE {})

\* answers the provider can give to a create
CreateOutcomes(scope, principal_id, role_definition_id) ==
    IF Held(scope, principal_id, role_definition_id)
    THEN {"already exists"} \cup (IF Budget > 0 THEN {"error"} ELSE {})
    ELSE {"ok"} \cup (IF Budget > 0 THEN {"PrincipalNotFound", "error"} ELSE {})

\* answers the provider can give to a list or a delete
CallOutcomes == {"ok"} \cup (IF Budget > 0 THEN {"error"} ELSE {})

IsFault(out) == out \in {"PrincipalNotFound", "error", "raise", "unavailable"}

----------------------------------------------------------------------------
(* History of the calls one invocation issues *)

Ev(op, scope, principal_id, role_definition_id, name, ptype, res) ==
    [op |-> op, scope |-> scope, principal_id |-> principal_id,
     role_definition_id |-> role_definition_id, name |-> name,
     ptype |-> ptype, res |-> res, listed |-> {}, probes |-> <<>>]

\* a list call and the assignments it returned
ListEv(scope, principal_id, role_definition_id, res, assignments) ==
    [Ev("list", scope, principal_id, role_definition_id, 0, None, res)
        EXCEPT !.listed = IF res = "ok" THEN assignments ELSE {}]

Logged(p, e) == [trace EXCEPT ![p] = Append(@, e)]

----------------------------------------------------------------------------
(* Principal resolution and classification (both managers) *)

\* get_principal_id_for_user: answers of the directory to a lookup by name
LookupOutcomes(user_upn) ==
    (IF user_upn.base \in DOMAIN DirectoryUsers THEN {"found"} ELSE {"no match"})
    \cup (IF Budget > 0 THEN {"unavailable"} ELSE {})

get_principal_id_for_user(user_upn, out) ==
    IF out = "found" THEN DirectoryUsers[user_upn.base] ELSE NoIdent

\* answers of the three directory probes users/, servicePrincipals/, groups/:
\* the status for the principal's catalog, or an exception at a probe that is
\* reached; the entries after the deciding probe are never requested
ProbeResponses(principal_id) ==
    LET kind == IF principal_id.base \in DOMAIN PrincipalCatalog
                THEN PrincipalCatalog[principal_id.base] ELSE None
        st(k) == IF kind = k THEN "200" ELSE "404"
        status == <<st("User"), st("ServicePrincipal"), st("Group")>>
        reached == {k \in 1..3 : \A i \in 1..(k - 1) : status[i] # "200"}
    IN {status}
       \cup (IF Budget > 0
             THEN {[i \in 1..3 |-> IF i < k THEN status[i]
                                   ELSE IF i = k THEN "raise" ELSE "404"] :
                      k \in reached}
             ELSE {})

\* faulty variant: a probe that raises makes the kind User
_detect_principal_type_raise_user(responses) ==
    IF \E k \in 1..3 : responses[k] = "raise" THEN "User"
    ELSE IF responses[1] = "200" THEN "User"
    ELSE IF responses[2] = "200" THEN "ServicePrincipal"
    ELSE IF responses[3] = "200" THEN "Group"
    ELSE "ServicePrincipal"

_detect_principal_type(responses) ==
    IF responses[1] = "raise" THEN "ServicePrincipal"
    ELSE IF responses[1] = "200" THEN "User"
    ELSE IF responses[2] = "raise" THEN "ServicePrincipal"
    ELSE IF responses[2] = "200" THEN "ServicePrincipal"
    ELSE IF responses[3] = "raise" THEN "ServicePrincipal"
    ELSE IF responses[3] = "200" THEN "Group"
    ELSE "ServicePrincipal"

ProbeFaults(responses) == IF \E i \in 1..3 : responses[i] = "raise" THEN 1 ELSE 0

----------------------------------------------------------------------------
(* A direct call of a helper function: its name, arguments and result *)

NoCall == [fn |-> None, a |-> <<>>, b |-> <<>>, out |-> None, done |-> FALSE,
           result |-> <<>>]

----------------------------------------------------------------------------
(* Reconciler frame *)

IdleRec ==
    [pc |-> "idle", scope |-> <<>>, role_definition_id |-> <<>>,
     principal_id |-> NoIdent, redundant_assignments |-> <<>>, idx |-> 1,
     result |-> FALSE]

StartRec(pc, scope, role_definition_id, principal_id) ==
    [pc |-> pc, scope |-> scope, role_definition_id |-> role_definition_id,
     principal_id |-> principal_id, redundant_assignments |-> <<>>, idx |-> 1,
     result |-> FALSE]

\* faulty variant: every path returns True
Returned_true(p, result) == [rec EXCEPT ![p].pc = "returned", ![p].result = TRUE]

\* faulty variant: a failure leaves the reconciler as an exception
Returned_or_raised(p, result) ==
    [rec EXCEPT ![p].pc = IF result THEN "returned" ELSE "raised",
                ![p].result = result]

\* return <result> from the reconciler
Returned(p, result) == [rec EXCEPT ![p].pc = "returned", ![p].result = result]

RetEv(r, result) ==
    Ev("return", r.scope, r.principal_id, r.role_definition_id, 0, None,
       IF result THEN "True" ELSE "False")

\* parts[2] of the resource id, then resolution and normalisation of the principal
Resolve(p, next_pc) ==
    LET r == rec[p] IN
    IF Len(r.scope) < 3
    THEN /\ rec' = Returned(p, FALSE)
         /\ trace' = Logged(p, RetEv(r, FALSE))
         /\ UNCHANGED faults
    ELSE IF ~IsGuid(r.principal_id)
    THEN \E out \in LookupOutcomes(r.principal_id) :
            LET object_id == get_principal_id_for_user(r.principal_id, out)
                ev == Ev("lookup", r.scope, r.principal_id, <<>>, 0, None, out)
            IN /\ faults' = faults + (IF IsFault(out) THEN 1 ELSE 0)
               /\ IF object_id = NoIdent
                  THEN /\ rec' = Returned(p, FALSE)
                       /\ trace' = [trace EXCEPT ![p] = @ \o <<ev, RetEv(r, FALSE)>>]
                  ELSE /\ rec' = [rec EXCEPT ![p].pc = next_pc,
                                             ![p].principal_id = NormalizeGuid(object_id)]
                       /\ trace' = Logged(p, ev)
    ELSE /\ rec' = [rec EXCEPT ![p].pc = next_pc,
                               ![p].principal_id = NormalizeGuid(r.principal_id)]
         /\ UNCHANGED <<faults, trace>>

----------------------------------------------------------------------------
(* VaultRoleManager.assign_role_to_user *)

is_owner_role(role_definition_id) == RoleIdIn(owner_role_id, role_definition_id)
is_admin_role(role_definition_id) == RoleIdIn(admin_role_id, role_definition_id)

\* the loop over the listed assignments
has_owner_role(assignments, principal_id) ==
    \E a \in assignments :
        a.principal_id = principal_id /\ RoleIdIn(owner_role_id, a.role_definition_id)

\* faulty variant: the exact role is never recognised
role_already_assigned_never(assignments, principal_id, role_definition_id) ==
    FALSE

role_already_assigned(assignments, principal_id, role_definition_id) ==
    \E a \in assignments :
        a.principal_id = principal_id /\ a.role_definition_id = role_definition_id

\* faulty variant: "if is_owner_role" in place of "elif is_owner_role"
redundant_assignments_if(assignments, principal_id, role_definition_id) ==
    IF is_owner_role(role_definition_id)
    THEN ListOrder({a \in assignments : a.principal_id = principal_id})
    ELSE <<>>

redundant_assignments(assignments, principal_id, role_definition_id) ==
    IF is_owner_role(role_definition_id)
    THEN ListOrder({a \in assignments :
                       /\ a.principal_id = principal_id
                       /\ a.role_definition_id # role_definition_id})
    ELSE <<>>

\* faulty variant: the earlier logic, which also skipped the Administrator role
skip_lesser_role_admin_too(assignments, principal_id, role_definition_id) ==
    /\ ~is_owner_role(role_definition_id)
    /\ has_owner_role(assignments, principal_id)

\* "if not is_owner_role and has_owner_role and not is_admin_role: return True"
skip_lesser_role(assignments, principal_id, role_definition_id) ==
    /\ ~is_owner_role(role_definition_id)
    /\ has_owner_role(assignments, principal_id)
    /\ ~is_admin_role(role_definition_id)

V_Resolve(p) ==
    /\ rec[p].pc = "v_resolve"
    /\ Resolve(p, "v_list")
    /\ UNCHANGED <<role_assignments, vault_tag, accounts_in_rg, other_writes,
                   runs, orc, har, call>>

\* list_for_scope, the loop over the listing and the two early returns
V_List(p) ==
    /\ rec[p].pc = "v_list"
    /\ \E out \in CallOutcomes :
        LET r == rec[p]
            assignments == ListForScope(r.scope)
            redundant == redundant_assignments(assignments, r.principal_id,
                                               r.role_definition_id)
            ev == ListEv(r.scope, r.principal_id, r.role_definition_id, out, assignments)
        IN /\ faults' = faults + (IF IsFault(out) THEN 1 ELSE 0)
           /\ IF out # "ok"
              THEN /\ rec' = Returned(p, FALSE)
                   /\ trace' = [trace EXCEPT ![p] = @ \o <<ev, RetEv(r, FALSE)>>]
              ELSE IF skip_lesser_role(assignments, r.principal_id, r.role_definition_id)
              THEN /\ rec' = Returned(p, TRUE)
                   /\ trace' = [trace EXCEPT ![p] = @ \o <<ev, RetEv(r, TRUE)>>]
              ELSE IF role_already_assigned(assignments, r.principal_id,
                                            r.role_definition_id)
              THEN IF is_owner_role(r.role_definition_id) /\ redundant # <<>>
                   THEN /\ rec' = [rec EXCEPT ![p].pc = "v_cleanup",
                                              ![p].redundant_assignments = redundant,
                                              ![p].idx = 1]
                        /\ trace' = Logged(p, ev)
                   ELSE /\ rec' = Returned(p, TRUE)
                        /\ trace' = [trace EXCEPT ![p] = @ \o <<ev, RetEv(r, TRUE)>>]
              ELSE /\ rec' = [rec EXCEPT ![p].pc = "v_create",
                                         ![p].redundant_assignments = redundant]
                   /\ trace' = Logged(p, ev)
    /\ UNCHANGED <<role_assignments, vault_tag, accounts_in_rg, other_writes,
                   runs, orc, har, call>>

\* _detect_principal_type, role_assignments.create and the except clauses
V_Create(p) ==
    /\ rec[p].pc = "v_create"
    /\ \E responses \in ProbeResponses(rec[p].principal_id) :
       \E out \in CreateOutcomes(rec[p].scope, rec[p].principal_id,
                                 rec[p].role_definition_id) :
        LET r == rec[p]
            principal_type == _detect_principal_type(responses)
            role_assignment_name == FreshName
            ev == [Ev("create", r.scope, r.principal_id, r.role_definition_id,
                      role_assignment_name, principal_type, out)
                      EXCEPT !.probes = responses]
        IN /\ ProbeFaults(responses) + (IF IsFault(out) THEN 1 ELSE 0) <= Budget
           /\ faults' = faults + ProbeFaults(responses) + (IF IsFault(out) THEN 1 ELSE 0)
           /\ IF out = "ok"
              THEN /\ role_assignments' = role_assignments \cup
                        {Assignment(role_assignment_name, r.scope, r.principal_id,
                                    r.role_definition_id)}
                   /\ IF is_owner_role(r.role_definition_id) /\ r.redundant_assignments # <<>>
                      THEN /\ rec' = [rec EXCEPT ![p].pc = "v_cleanup", ![p].idx = 1]
                           /\ trace' = Logged(p, ev)
                      ELSE /\ rec' = Returned(p, TRUE)
                           /\ trace' = [trace EXCEPT ![p] = @ \o <<ev, RetEv(r, TRUE)>>]
              ELSE /\ UNCHANGED role_assignments
                   /\ rec' = Returned(p, out \in {"already exists", "PrincipalNotFound"})
                   /\ trace' = [trace EXCEPT ![p] = @ \o
                        <<ev, RetEv(r, out \in {"already exists", "PrincipalNotFound"})>>]
    /\ UNCHANGED <<vault_tag, accounts_in_rg, other_writes, runs, orc, har,
                   call>>

\* one iteration of "for assignment in redundant_assignments: delete"
V_Cleanup(p) ==
    /\ rec[p].pc = "v_cleanup"
    /\ \E out \in CallOutcomes :
        LET r == rec[p]
            assignment == r.redundant_assignments[r.idx]
            ev == Ev("delete", r.scope, assignment.principal_id,
                     assignment.role_definition_id, assignment.name, None, out)
        IN /\ faults' = faults + (IF IsFault(out) THEN 1 ELSE 0)
           /\ role_assignments' = IF out = "ok"
                                  THEN AfterDelete(r.scope, assignment.name)
                                  ELSE role_assignments
           /\ IF r.idx < Len(r.redundant_assignments)
              THEN /\ rec' = [rec EXCEPT ![p].idx = r.idx + 1]
                   /\ trace' = Logged(p, ev)
              ELSE /\ rec' = Returned(p, TRUE)
                   /\ trace' = [trace EXCEPT ![p] = @ \o <<ev, RetEv(r, TRUE)>>]
    /\ UNCHANGED <<vault_tag, accounts_in_rg, other_writes, runs, orc, har,
                   call>>

----------------------------------------------------------------------------
(* StorageRoleManager._assign_role_to_storage_account *)

S_Resolve(p) ==
    /\ rec[p].pc = "s_resolve"
    /\ Resolve(p, "s_list")
    /\ UNCHANGED <<role_assignments, vault_tag, accounts_in_rg, other_writes,
                   runs, orc, har, call>>

S_List(p) ==
    /\ rec[p].pc = "s_list"
    /\ \E out \in CallOutcomes :
        LET r == rec[p]
            assignments == ListForScope(r.scope)
            ev == ListEv(r.scope, r.principal_id, r.role_definition_id, out, assignments)
        IN /\ faults' = faults + (IF IsFault(out) THEN 1 ELSE 0)
           /\ IF out # "ok"
              THEN /\ rec' = Returned(p, FALSE)
                   /\ trace' = [trace EXCEPT ![p] = @ \o <<ev, RetEv(r, FALSE)>>]
              ELSE IF \E a \in assignments :
                         /\ a.principal_id = r.principal_id
                         /\ a.role_definition_id = r.role_definition_id
              THEN /\ rec' = Returned(p, TRUE)
                   /\ trace' = [trace EXCEPT ![p] = @ \o <<ev, RetEv(r, TRUE)>>]
              ELSE /\ rec' = [rec EXCEPT ![p].pc = "s_create"]
                   /\ trace' = Logged(p, ev)
    /\ UNCHANGED <<role_assignments, vault_tag, accounts_in_rg, other_writes,
                   runs, orc, har, call>>

S_Create(p) ==
    /\ rec[p].pc = "s_create"
    /\ \E responses \in ProbeResponses(rec[p].principal_id) :
       \E out \in CreateOutcomes(rec[p].scope, rec[p].principal_id,
                                 rec[p].role_definition_id) :
        LET r == rec[p]
            principal_type == _detect_principal_type(responses)
            role_assignment_name == FreshName
            ev == [Ev("create", r.scope, r.principal_id, r.role_definition_id,
                      role_assignment_name, principal_type, out)
                      EXCEPT !.probes = responses]
            result == out \in {"ok", "already exists", "PrincipalNotFound"}
        IN /\ ProbeFaults(responses) + (IF IsFault(out) THEN 1 ELSE 0) <= Budget
           /\ faults' = faults + ProbeFaults(responses) + (IF IsFault(out) THEN 1 ELSE 0)
           /\ role_assignments' =
                IF out = "ok"
                THEN role_assignments \cup
                        {Assignment(role_assignment_name, r.scope, r.principal_id,
                                    r.role_definition_id)}
                ELSE role_assignments
           /\ rec' = Returned(p, result)
           /\ trace' = [trace EXCEPT ![p] = @ \o <<ev, RetEv(r, result)>>]
    /\ UNCHANGED <<vault_tag, accounts_in_rg, other_writes, runs, orc, har,
                   call>>

----------------------------------------------------------------------------
(* Environment: initial provider states and the other writer *)

Candidates ==
    << <<VaultResourceId, U1, owner_role_id>>,
       <<VaultResourceId, U1, admin_role_id>>,
       <<VaultResourceId, U1, reader_role_id>>,
       <<VaultResourceId, U2, admin_role_id>>,
       <<StorageResourceId("kvst"), U1, STORAGE_ACCOUNT_CONTRIBUTOR_ROLE_ID>> >>

CandidateAssignment(name, i) ==
    Assignment(name, Candidates[i][1], Candidates[i][2],
               RoleDefinitionId(SubscriptionId, Candidates[i][3]))

\* the provider starts with any set of vault-scope candidates
InitialAssignmentSets ==
    {{CandidateAssignment(i, i) : i \in I} : I \in SUBSET (1..4)}

\* the assignments another writer creates or deletes: the caller's vault roles
\* and one storage role
OtherWriterCandidates == {1, 2, 5}

\* another writer creates an assignment the provider does not hold, or deletes
\* one, while some reconciliation is between its list and its last call
OtherWriter ==
    /\ Budget > 0
    /\ \E p \in Procs : rec[p].pc \in {"v_create", "v_cleanup", "s_create"}
    /\ other_writes' = other_writes + 1
    /\ \E i \in OtherWriterCandidates :
        LET c == CandidateAssignment(FreshName, i) IN
        IF Held(c.scope, c.principal_id, c.role_definition_id)
        THEN role_assignments' =
                {a \in role_assignments :
                    ~(/\ a.scope = c.scope
                      /\ a.principal_id = c.principal_id
                      /\ a.role_definition_id = c.role_definition_id)}
        ELSE role_assignments' = role_assignments \cup {c}
    /\ UNCHANGED <<vault_tag, accounts_in_rg, faults, runs, orc, rec, har, trace,
                   call>>

----------------------------------------------------------------------------
(* Direct use of the per-pair reconcilers: the same (scope, role, principal) *)
(* is reconciled MaxCalls times in succession.                               *)

HarnessArgs ==
    [kind : {"vault"}, scope : {VaultResourceId},
     role_definition_id : {RoleDefinitionId(SubscriptionId, g) :
                             g \in {owner_role_id, admin_role_id, reader_role_id}},
     principal_id : {U1, Alice}]
    \cup
    [kind : {"storage"}, scope : {StorageResourceId("kvst")},
     role_definition_id : {RoleDefinitionId(SubscriptionId, g) :
                             g \in {STORAGE_ACCOUNT_CONTRIBUTOR_ROLE_ID}},
     principal_id : {U1, U2, U3, U4}]

IdleHar ==
    [pc |-> "idle", kind |-> None, scope |-> <<>>, role_definition_id |-> <<>>,
     principal_id |-> NoIdent, n |-> 0, results |-> <<>>, before |-> <<>>,
     after |-> <<>>, logs |-> <<>>, writes |-> <<>>]

HarnessCall(p) ==
    /\ har[p].pc = "idle"
    /\ rec[p].pc = "idle"
    /\ orc[p].pc = "idle"
    /\ har[p].n < MaxCalls
    /\ \E args \in HarnessArgs :
        /\ har[p].n > 0 =>
              /\ args.kind = har[p].kind
              /\ args.scope = har[p].scope
              /\ args.role_definition_id = har[p].role_definition_id
              /\ args.principal_id = har[p].principal_id
        /\ har' = [har EXCEPT ![p].pc = "calling",
                              ![p].kind = args.kind,
                              ![p].scope = args.scope,
                              ![p].role_definition_id = args.role_definition_id,
                              ![p].principal_id = args.principal_id,
                              ![p].before = Append(@, role_assignments),
                              ![p].writes = Append(@, other_writes)]
        /\ rec' = [rec EXCEPT ![p] =
                      StartRec(IF args.kind = "vault" THEN "v_resolve" ELSE "s_resolve",
                               args.scope, args.role_definition_id, args.principal_id)]
    /\ trace' = [trace EXCEPT ![p] = <<>>]
    /\ UNCHANGED <<role_assignments, vault_tag, accounts_in_rg, faults,
                   other_writes, runs, orc, call>>

HarnessReturn(p) ==
    /\ har[p].pc = "calling"
    /\ rec[p].pc = "returned"
    /\ har' = [har EXCEPT ![p].pc = "idle",
                          ![p].n = @ + 1,
                          ![p].results = Append(@, rec[p].result),
                          ![p].after = Append(@, role_assignments),
                          ![p].logs = Append(@, trace[p]),
                          ![p].writes = Append(@, other_writes)]
    /\ rec' = [rec EXCEPT ![p] = IdleRec]
    /\ UNCHANGED <<role_assignments, vault_tag, accounts_in_rg, faults,
                   other_writes, runs, orc, trace, call>>

----------------------------------------------------------------------------
(* Strings that are searched: kept as sequences of characters *)

Chars(name) ==
    CASE name = "kv" -> <<"k", "v">>
      [] name = "kvst" -> <<"k", "v", "s", "t">>
      [] name = "data" -> <<"d", "a", "t", "a">>
      [] name = "logs" -> <<"l", "o", "g", "s">>
      [] name = "blob" -> <<"b", "l", "o", "b">>
      [] name = "tmp" -> <<"t", "m", "p">>
      [] OTHER -> <<>>

LowerChar(c) ==
    CASE c = "K" -> "k"
      [] c = "V" -> "v"
      [] c = "S" -> "s"
      [] c = "T" -> "t"
      [] c = "F" -> "f"
      [] OTHER -> c

\* str.lower() on a sequence of characters
LowerChars(s) == [i \in 1..Len(s) |-> LowerChar(s[i])]

\* pattern in text
Contains(text, pattern) ==
    \E i \in 1..(Len(text) - Len(pattern) + 1) :
        SubSeq(text, i, i + Len(pattern) - 1) = pattern

----------------------------------------------------------------------------
(* StorageRoleManager: discovery and role mapping *)

\* faulty variant: the three patterns of the comment, without {vault}st
_matches_naming_convention_three(storage_name, vault_name) ==
    LET storage_lower == LowerChars(storage_name)
        vault_lower == LowerChars(vault_name)
        patterns == <<vault_lower \o <<"s", "t", "o", "r", "a", "g", "e">>,
                      vault_lower \o <<"s", "t", "o", "r">>,
                      <<"s", "t", "o", "r">> \o vault_lower>>
    IN \E k \in 1..Len(patterns) : Contains(storage_lower, patterns[k])

_matches_naming_convention(storage_name, vault_name) ==
    LET storage_lower == LowerChars(storage_name)
        vault_lower == LowerChars(vault_name)
        patterns == <<vault_lower \o <<"s", "t", "o", "r", "a", "g", "e">>,
                      vault_lower \o <<"s", "t", "o", "r">>,
                      <<"s", "t", "o", "r">> \o vault_lower,
                      vault_lower \o <<"s", "t">>>>
    IN \E k \in 1..Len(patterns) : Contains(storage_lower, patterns[k])

Account(name, associated_vault) ==
    [id |-> StorageResourceId(name), name |-> name,
     tags |-> [AssociatedVault |-> associated_vault]]

\* the storage accounts the resource group may hold
AccountCatalog ==
    <<Account("kvst", None), Account("data", "kv"), Account("logs", None)>>

Inventories ==
    {[i \in 1..Len(sel) |-> AccountCatalog[sel[i]]] :
        sel \in {t \in UNION {[1..n -> 1..Len(AccountCatalog)] : n \in 0..MaxAccounts} :
                    \A i \in 1..(Len(t) - 1) : t[i] < t[i + 1]}}

\* faulty variant: only the tag links an account
account_is_linked_by_tag(account, vault_name) ==
    account.tags.AssociatedVault = vault_name

account_is_linked(account, vault_name) ==
    \/ account.tags.AssociatedVault = vault_name
    \/ _matches_naming_convention(Chars(account.name), Chars(vault_name))

\* faulty variant: a failed enumeration is not noticed
discover_associated_storage_accounts_fail_open(vault_resource_id, out) ==
    LET parts == vault_resource_id IN
    IF Len(parts) < 9 \/ parts[7] # "Microsoft.KeyVault" \/ parts[8] # "vaults"
    THEN <<>>
    ELSE [i \in 1..Len(accounts_in_rg) |-> accounts_in_rg[i].id]

\* discover_associated_storage_accounts; out is the inventory's answer
discover_associated_storage_accounts(vault_resource_id, out) ==
    LET parts == vault_resource_id IN
    IF Len(parts) < 9 \/ parts[7] # "Microsoft.KeyVault" \/ parts[8] # "vaults"
    THEN <<>>
    ELSE IF out # "ok" THEN <<>>
    ELSE LET vault_name == parts[9]
             linked == SelectSeq(accounts_in_rg,
                                 LAMBDA account : account_is_linked(account, vault_name))
             storage_accounts == IF linked = <<>> /\ accounts_in_rg # <<>>
                                 THEN accounts_in_rg ELSE linked
         IN [i \in 1..Len(storage_accounts) |-> storage_accounts[i].id]

\* faulty variant: the inventory is listed before the id is looked at
DiscoveryCallsInventory_first(vault_resource_id) == TRUE

\* whether discovery reaches the inventory at all
DiscoveryCallsInventory(vault_resource_id) ==
    ~(\/ Len(vault_resource_id) < 9
      \/ vault_resource_id[7] # "Microsoft.KeyVault"
      \/ vault_resource_id[8] # "vaults")

\* faulty variant: Owner is mapped to the data role only
get_storage_role_assignments_for_vault_role_data_only(vault_role_id) ==
    IF RoleIdIn(owner_role_id, vault_role_id)
    THEN <<STORAGE_BLOB_DATA_OWNER_ROLE_ID>>
    ELSE IF RoleIdIn(admin_role_id, vault_role_id)
    THEN <<STORAGE_BLOB_DATA_CONTRIBUTOR_ROLE_ID>>
    ELSE <<>>

get_storage_role_assignments_for_vault_role(vault_role_id) ==
    IF RoleIdIn(owner_role_id, vault_role_id)
    THEN <<STORAGE_ACCOUNT_CONTRIBUTOR_ROLE_ID, STORAGE_BLOB_DATA_OWNER_ROLE_ID>>
    ELSE IF RoleIdIn(admin_role_id, vault_role_id)
    THEN <<STORAGE_BLOB_DATA_CONTRIBUTOR_ROLE_ID>>
    ELSE <<>>

----------------------------------------------------------------------------
(* VaultRoleManager.get_vault_info *)

VaultInfo(tags) == [type |-> "dict", tags |-> tags]
NoVaultInfo == [type |-> "NoneType", tags |-> [CreatedByID |-> NoIdent]]

\* what awaiting get_vault_info yields; out is the answer of vaults.get
get_vault_info(vault_resource_id, out) ==
    LET parts == vault_resource_id IN
    IF Len(parts) < 9 \/ parts[7] # "Microsoft.KeyVault" \/ parts[8] # "vaults"
    THEN NoVaultInfo
    ELSE IF out # "ok" THEN NoVaultInfo
    ELSE VaultInfo([CreatedByID |-> vault_tag])

\* calling an async function without awaiting it yields a coroutine object and
\* runs none of its body
Coroutine == [type |-> "coroutine", tags |-> [CreatedByID |-> NoIdent]]

----------------------------------------------------------------------------
(* function_app.direct_vault_rbac_processor *)

AuthCases == {"ok", "no bearer header", "undecodable token", "expired token",
              "no oid or sub"}
BodyCases == {"ok", "invalid json", "missing parameter"}

Request(auth, body, user_id) ==
    [auth |-> auth, body |-> body, user_id |-> user_id,
     resource_uri |-> VaultResourceId, subscription_id |-> SubscriptionId]

\* resource ids that do not name a vault: too few segments, or other
\* provider and type tokens at the fixed positions
MalformedResourceIds ==
    {<<"invalid-resource-id">>,
     <<"", "subscriptions", SubscriptionId, "resourceGroups", ResourceGroup,
       "providers", "Microsoft.Web", "sites", VaultName>>}

\* well-formed requests of three callers, one request for each rejection, and
\* requests whose resourceUri does not name a vault
Requests ==
    {Request("ok", "ok", u) : u \in {U1, Alice, Bob}}
    \cup {Request(a, "ok", U1) : a \in AuthCases}
    \cup {Request("ok", b, U1) : b \in BodyCases}
    \cup {[Request("ok", "ok", U1) EXCEPT !.resource_uri = m] :
            m \in MalformedResourceIds}

\* the requests received after n others: one whose resourceUri names no vault
\* is the last of a behaviour
Receivable(n) ==
    {req \in Requests :
        req.resource_uri \in MalformedResourceIds => n = MaxRuns - 1}

EmptyMap == <<>>

NoResponse ==
    [success |-> FALSE, ownerRoleAssigned |-> FALSE, adminRoleAssigned |-> FALSE,
     isCreator |-> "null", discovered |-> 0, assignments |-> EmptyMap,
     storage_success |-> FALSE]

IdleOrc ==
    [pc |-> "idle", user_id |-> NoIdent, resource_uri |-> <<>>,
     subscription_id |-> None, creator_id |-> NoIdent,
     owner_success |-> FALSE, admin_success |-> FALSE,
     storage_accounts |-> <<>>, vault_role_definition_id |-> <<>>,
     storage_role_ids |-> <<>>, i |-> 1, j |-> 1, storage_results |-> EmptyMap,
     status |-> 0, response |-> NoResponse, calls |-> <<>>, before |-> {},
     repeat |-> FALSE]

\* storage_resource_id.split('/')[-1]
StorageName(storage_resource_id) == storage_resource_id[Len(storage_resource_id)]

\* what the orchestrator learns from one reconciliation
Summary(p, kind) ==
    [kind |-> kind, scope |-> rec[p].scope,
     role_definition_id |-> rec[p].role_definition_id,
     result |-> rec[p].result,
     creates |-> Len(SelectSeq(trace[p], LAMBDA e : e.op = "create")),
     deletes |-> Len(SelectSeq(trace[p], LAMBDA e : e.op = "delete")),
     lookups |-> LET ls == SelectSeq(trace[p], LAMBDA e : e.op = "lookup")
                 IN [k \in 1..Len(ls) |-> ls[k].res]]

\* faulty variant: the storage results are not inspected
storage_success_unchecked(storage_accounts, storage_results) ==
    TRUE

\* "Calculate overall storage success"
storage_success(storage_accounts, storage_results) ==
    IF storage_accounts # <<>>
    THEN \A n \in DOMAIN storage_results :
            \A r \in DOMAIN storage_results[n] : storage_results[n][r]
    ELSE TRUE

\* "creator_id and creator_id.lower() == user_id.lower()" as JSON
isCreator(creator_id, user_id) ==
    IF creator_id = NoIdent THEN "null"
    ELSE IF Lower(creator_id) = Lower(user_id) THEN "true" ELSE "false"

\* the response and the status code built from the outcomes
Aggregate(o) ==
    LET ss == storage_success(o.storage_accounts, o.storage_results)
        ok == o.owner_success /\ o.admin_success /\ ss
    IN [o EXCEPT !.pc = "done",
                 !.status = IF ok THEN 200 ELSE 500,
                 !.response =
                    [success |-> ok,
                     ownerRoleAssigned |-> o.owner_success,
                     adminRoleAssigned |-> o.admin_success,
                     isCreator |-> isCreator(o.creator_id, o.user_id),
                     discovered |-> Len(o.storage_accounts),
                     assignments |-> o.storage_results,
                     storage_success |-> ss]]

\* faulty variant: the request is refused after the Owner reconciliation
Rejected_late(status) ==
    [IdleOrc EXCEPT !.pc = "done", !.status = status,
                    !.calls = <<[kind |-> "vault", scope |-> VaultResourceId,
                                 role_definition_id |->
                                    RoleDefinitionId(SubscriptionId, owner_role_id),
                                 result |-> TRUE, creates |-> 1, deletes |-> 0,
                                 lookups |-> <<>>]>>]

Rejected(status) == [IdleOrc EXCEPT !.pc = "done", !.status = status]

\* history: the request repeats the one of the run before it, which ended 200
Repeats(o, req) ==
    /\ o.pc = "done" /\ o.status = 200
    /\ o.user_id = req.user_id
    /\ o.resource_uri = req.resource_uri
    /\ o.subscription_id = req.subscription_id

\* faulty variant: a vault without the CreatedByID tag is refused
O_Receive_tag_required(p) ==
    /\ orc[p].pc \in {"idle", "done"}
    /\ har[p].pc = "idle" /\ har[p].n = 0
    /\ rec[p].pc = "idle"
    /\ runs < MaxRuns
    /\ runs' = runs + 1
    /\ trace' = [trace EXCEPT ![p] = <<>>]
    /\ \E req \in Receivable(runs) :
        LET vault_info == Coroutine
            vault_tags == IF vault_info.type = "dict" THEN vault_info.tags
                          ELSE [CreatedByID |-> NoIdent]
            creator_id == vault_tags.CreatedByID
            owner_role_definition_id == RoleDefinitionId(req.subscription_id, owner_role_id)
        IN IF req.auth # "ok"
           THEN /\ orc' = [orc EXCEPT ![p] = Rejected(401)]
                /\ UNCHANGED rec
           ELSE IF req.body # "ok"
           THEN /\ orc' = [orc EXCEPT ![p] = Rejected(400)]
                /\ UNCHANGED rec
           ELSE IF vault_info.type = "NoneType"
           THEN /\ orc' = [orc EXCEPT ![p] = Rejected(404)]
                /\ UNCHANGED rec
           ELSE IF creator_id = NoIdent \/ Lower(creator_id) # Lower(req.user_id)
           THEN /\ orc' = [orc EXCEPT ![p] =
                            [Rejected(403) EXCEPT !.user_id = req.user_id,
                                                  !.creator_id = creator_id]]
                /\ UNCHANGED rec
           ELSE /\ orc' = [orc EXCEPT ![p] =
                            [IdleOrc EXCEPT !.pc = "owner",
                                            !.user_id = req.user_id,
                                            !.resource_uri = req.resource_uri,
                                            !.subscription_id = req.subscription_id,
                                            !.creator_id = creator_id,
                                            !.before = role_assignments,
                                            !.repeat = Repeats(orc[p], req)]]
                /\ rec' = [rec EXCEPT ![p] =
                            StartRec("v_resolve", req.resource_uri,
                                     owner_role_definition_id, req.user_id)]
    /\ UNCHANGED <<role_assignments, vault_tag, accounts_in_rg, faults,
                   other_writes, har, call>>

\* token and body validation, get_vault_info, the creator check, and the
\* call of assign_role_to_user for the Owner role
O_Receive(p) ==
    /\ orc[p].pc \in {"idle", "done"}
    /\ har[p].pc = "idle" /\ har[p].n = 0
    /\ rec[p].pc = "idle"
    /\ runs < MaxRuns
    /\ runs' = runs + 1
    /\ trace' = [trace EXCEPT ![p] = <<>>]
    /\ \E req \in Receivable(runs) :
        LET vault_info == Coroutine
            vault_tags == IF vault_info.type = "dict" THEN vault_info.tags
                          ELSE [CreatedByID |-> NoIdent]
            creator_id == vault_tags.CreatedByID
            owner_role_definition_id == RoleDefinitionId(req.subscription_id, owner_role_id)
        IN IF req.auth # "ok"
           THEN /\ orc' = [orc EXCEPT ![p] = Rejected(401)]
                /\ UNCHANGED rec
           ELSE IF req.body # "ok"
           THEN /\ orc' = [orc EXCEPT ![p] = Rejected(400)]
                /\ UNCHANGED rec
           ELSE IF vault_info.type = "NoneType"
           THEN /\ orc' = [orc EXCEPT ![p] = Rejected(404)]
                /\ UNCHANGED rec
           ELSE IF creator_id # NoIdent /\ Lower(creator_id) # Lower(req.user_id)
           THEN /\ orc' = [orc EXCEPT ![p] =
                            [Rejected(403) EXCEPT !.user_id = req.user_id,
                                                  !.creator_id = creator_id]]
                /\ UNCHANGED rec
           ELSE /\ orc' = [orc EXCEPT ![p] =
                            [IdleOrc EXCEPT !.pc = "owner",
                                            !.user_id = req.user_id,
                                            !.resource_uri = req.resource_uri,
                                            !.subscription_id = req.subscription_id,
                                            !.creator_id = creator_id,
                                            !.before = role_assignments,
                                            !.repeat = Repeats(orc[p], req)]]
                /\ rec' = [rec EXCEPT ![p] =
                            StartRec("v_resolve", req.resource_uri,
                                     owner_role_definition_id, req.user_id)]
    /\ UNCHANGED <<role_assignments, vault_tag, accounts_in_rg, faults,
                   other_writes, har, call>>

\* faulty variant: the Administrator branch is tested first
cascade_vault_role_admin_first(owner_success, admin_success, subscription_id) ==
    IF admin_success THEN RoleDefinitionId(subscription_id, admin_role_id)
    ELSE IF owner_success THEN RoleDefinitionId(subscription_id, owner_role_id)
    ELSE <<>>

\* "if owner_success: ... elif admin_success: ...": the vault role the cascade maps
cascade_vault_role(owner_success, admin_success, subscription_id) ==
    IF owner_success THEN RoleDefinitionId(subscription_id, owner_role_id)
    ELSE IF admin_success THEN RoleDefinitionId(subscription_id, admin_role_id)
    ELSE <<>>

\* the first pair of the cascade, or the response when there is no cascade
BeginCascade(p, o) ==
    IF o.storage_accounts # <<>> /\ o.storage_role_ids # <<>>
    THEN /\ orc' = [orc EXCEPT ![p] =
                      [o EXCEPT !.pc = "cascade", !.i = 1, !.j = 1,
                                !.storage_results =
                                    (StorageName(o.storage_accounts[1]) :> EmptyMap)]]
         /\ rec' = [rec EXCEPT ![p] =
                      StartRec("s_resolve", o.storage_accounts[1],
                               RoleDefinitionId(o.storage_accounts[1][3],
                                                o.storage_role_ids[1]),
                               o.user_id)]
    ELSE /\ orc' = [orc EXCEPT ![p] = Aggregate(o)]
         /\ rec' = [rec EXCEPT ![p] = IdleRec]

\* faulty variant: a failed Owner reconciliation ends the run at once
O_OwnerDone_short_circuit(p) ==
    /\ orc[p].pc = "owner"
    /\ rec[p].pc = "returned"
    /\ IF rec[p].result
       THEN /\ orc' = [orc EXCEPT ![p].pc = "admin",
                                  ![p].owner_success = rec[p].result,
                                  ![p].calls = Append(@, Summary(p, "vault"))]
            /\ rec' = [rec EXCEPT ![p] =
                        StartRec("v_resolve", orc[p].resource_uri,
                                 RoleDefinitionId(orc[p].subscription_id, admin_role_id),
                                 orc[p].user_id)]
       ELSE /\ orc' = [orc EXCEPT ![p] =
                        Aggregate([orc[p] EXCEPT !.calls = Append(@, Summary(p, "vault"))])]
            /\ rec' = [rec EXCEPT ![p] = IdleRec]
    /\ trace' = [trace EXCEPT ![p] = <<>>]
    /\ UNCHANGED <<role_assignments, vault_tag, accounts_in_rg, faults,
                   other_writes, runs, har, call>>

\* faulty variant: the cascade is started as soon as the Owner outcome is known
O_OwnerDone_cascade_first(p) ==
    /\ orc[p].pc = "owner"
    /\ rec[p].pc = "returned"
    /\ LET vault_role == cascade_vault_role(rec[p].result, FALSE, orc[p].subscription_id)
           o == [orc[p] EXCEPT
                    !.owner_success = rec[p].result,
                    !.calls = Append(@, Summary(p, "vault")),
                    !.storage_accounts =
                        discover_associated_storage_accounts(orc[p].resource_uri, "ok"),
                    !.vault_role_definition_id = vault_role,
                    !.storage_role_ids =
                        IF vault_role = <<>> THEN <<>>
                        ELSE get_storage_role_assignments_for_vault_role(vault_role)]
       IN BeginCascade(p, o)
    /\ trace' = [trace EXCEPT ![p] = <<>>]
    /\ UNCHANGED <<role_assignments, vault_tag, accounts_in_rg, faults,
                   other_writes, runs, har, call>>

\* owner_success is known; call assign_role_to_user for the Administrator role
O_OwnerDone(p) ==
    /\ orc[p].pc = "owner"
    /\ rec[p].pc = "returned"
    /\ orc' = [orc EXCEPT ![p].pc = "admin",
                          ![p].owner_success = rec[p].result,
                          ![p].calls = Append(@, Summary(p, "vault"))]
    /\ rec' = [rec EXCEPT ![p] =
                StartRec("v_resolve", orc[p].resource_uri,
                         RoleDefinitionId(orc[p].subscription_id, admin_role_id),
                         orc[p].user_id)]
    /\ trace' = [trace EXCEPT ![p] = <<>>]
    /\ UNCHANGED <<role_assignments, vault_tag, accounts_in_rg, faults,
                   other_writes, runs, har, call>>

\* admin_success is known; discovery; the choice of the cascade's vault role
O_AdminDone(p) ==
    /\ orc[p].pc = "admin"
    /\ rec[p].pc = "returned"
    /\ \E out \in (IF DiscoveryCallsInventory(orc[p].resource_uri)
                   THEN CallOutcomes ELSE {"ok"}) :
        LET admin_success == rec[p].result
            storage_accounts == discover_associated_storage_accounts(orc[p].resource_uri, out)
            vault_role == cascade_vault_role(orc[p].owner_success, admin_success,
                                             orc[p].subscription_id)
            o == [orc[p] EXCEPT
                    !.admin_success = admin_success,
                    !.calls = Append(@, Summary(p, "vault")),
                    !.storage_accounts = storage_accounts,
                    !.vault_role_definition_id = vault_role,
                    !.storage_role_ids =
                        IF vault_role = <<>> THEN <<>>
                        ELSE get_storage_role_assignments_for_vault_role(vault_role)]
        IN /\ faults' = faults + (IF IsFault(out) THEN 1 ELSE 0)
           /\ BeginCascade(p, o)
           /\ trace' = [trace EXCEPT ![p] =
                          IF DiscoveryCallsInventory(orc[p].resource_uri)
                          THEN <<Ev("list_by_resource_group", orc[p].resource_uri,
                                    NoIdent, <<>>, 0, None, out)>>
                          ELSE <<>>]
    /\ UNCHANGED <<role_assignments, vault_tag, accounts_in_rg, other_writes,
                   runs, har, call>>

\* faulty variant: a pair that failed is reconciled again
O_StorageDone_retry(p) ==
    /\ orc[p].pc = "cascade"
    /\ rec[p].pc = "returned"
    /\ LET o == orc[p]
           storage_name == StorageName(o.storage_accounts[o.i])
           role_id == o.storage_role_ids[o.j]
           results == (storage_name :> ((role_id :> rec[p].result)
                                        @@ o.storage_results[storage_name]))
                      @@ o.storage_results
           logged == Append(o.calls, Summary(p, "storage"))
       IN IF ~rec[p].result /\ Len(o.calls) < 8
          THEN /\ orc' = [orc EXCEPT ![p].calls = logged]
               /\ rec' = [rec EXCEPT ![p] =
                            StartRec("s_resolve", o.storage_accounts[o.i],
                                     RoleDefinitionId(o.storage_accounts[o.i][3], role_id),
                                     o.user_id)]
          ELSE IF o.j < Len(o.storage_role_ids)
          THEN /\ orc' = [orc EXCEPT ![p].j = o.j + 1,
                                     ![p].storage_results = results,
                                     ![p].calls = logged]
               /\ rec' = [rec EXCEPT ![p] =
                            StartRec("s_resolve", o.storage_accounts[o.i],
                                     RoleDefinitionId(o.storage_accounts[o.i][3],
                                                      o.storage_role_ids[o.j + 1]),
                                     o.user_id)]
          ELSE IF o.i < Len(o.storage_accounts)
          THEN /\ orc' = [orc EXCEPT ![p].i = o.i + 1, ![p].j = 1,
                                     ![p].storage_results =
                                        (StorageName(o.storage_accounts[o.i + 1]) :> EmptyMap)
                                        @@ results,
                                     ![p].calls = logged]
               /\ rec' = [rec EXCEPT ![p] =
                            StartRec("s_resolve", o.storage_accounts[o.i + 1],
                                     RoleDefinitionId(o.storage_accounts[o.i + 1][3],
                                                      o.storage_role_ids[1]),
                                     o.user_id)]
          ELSE /\ orc' = [orc EXCEPT ![p] =
                            Aggregate([o EXCEPT !.storage_results = results,
                                                !.calls = logged])]
               /\ rec' = [rec EXCEPT ![p] = IdleRec]
    /\ trace' = [trace EXCEPT ![p] = <<>>]
    /\ UNCHANGED <<role_assignments, vault_tag, accounts_in_rg, faults,
                   other_writes, runs, har, call>>

\* faulty variant: the cascade stops at the first pair that fails
O_StorageDone_stop_at_failure(p) ==
    /\ orc[p].pc = "cascade"
    /\ rec[p].pc = "returned"
    /\ LET o == orc[p]
           storage_name == StorageName(o.storage_accounts[o.i])
           role_id == o.storage_role_ids[o.j]
           results == (storage_name :> ((role_id :> rec[p].result)
                                        @@ o.storage_results[storage_name]))
                      @@ o.storage_results
           logged == Append(o.calls, Summary(p, "storage"))
       IN IF rec[p].result /\ o.j < Len(o.storage_role_ids)
          THEN /\ orc' = [orc EXCEPT ![p].j = o.j + 1,
                                     ![p].storage_results = results,
                                     ![p].calls = logged]
               /\ rec' = [rec EXCEPT ![p] =
                            StartRec("s_resolve", o.storage_accounts[o.i],
                                     RoleDefinitionId(o.storage_accounts[o.i][3],
                                                      o.storage_role_ids[o.j + 1]),
                                     o.user_id)]
          ELSE IF rec[p].result /\ o.i < Len(o.storage_accounts)
          THEN /\ orc' = [orc EXCEPT ![p].i = o.i + 1, ![p].j = 1,
                                     ![p].storage_results =
                                        (StorageName(o.storage_accounts[o.i + 1]) :> EmptyMap)
                                        @@ results,
                                     ![p].calls = logged]
               /\ rec' = [rec EXCEPT ![p] =
                            StartRec("s_resolve", o.storage_accounts[o.i + 1],
                                     RoleDefinitionId(o.storage_accounts[o.i + 1][3],
                                                      o.storage_role_ids[1]),
                                     o.user_id)]
          ELSE /\ orc' = [orc EXCEPT ![p] =
                            Aggregate([o EXCEPT !.storage_results = results,
                                                !.calls = logged])]
               /\ rec' = [rec EXCEPT ![p] = IdleRec]
    /\ trace' = [trace EXCEPT ![p] = <<>>]
    /\ UNCHANGED <<role_assignments, vault_tag, accounts_in_rg, faults,
                   other_writes, runs, har, call>>

\* results[storage_name][role_id] = success; the next pair, or the response
O_StorageDone(p) ==
    /\ orc[p].pc = "cascade"
    /\ rec[p].pc = "returned"
    /\ LET o == orc[p]
           storage_name == StorageName(o.storage_accounts[o.i])
           role_id == o.storage_role_ids[o.j]
           results == (storage_name :> ((role_id :> rec[p].result)
                                        @@ o.storage_results[storage_name]))
                      @@ o.storage_results
           logged == Append(o.calls, Summary(p, "storage"))
       IN IF o.j < Len(o.storage_role_ids)
          THEN /\ orc' = [orc EXCEPT ![p].j = o.j + 1,
                                     ![p].storage_results = results,
                                     ![p].calls = logged]
               /\ rec' = [rec EXCEPT ![p] =
                            StartRec("s_resolve", o.storage_accounts[o.i],
                                     RoleDefinitionId(o.storage_accounts[o.i][3],
                                                      o.storage_role_ids[o.j + 1]),
                                     o.user_id)]
          ELSE IF o.i < Len(o.storage_accounts)
          THEN /\ orc' = [orc EXCEPT ![p].i = o.i + 1, ![p].j = 1,
                                     ![p].storage_results =
                                        (StorageName(o.storage_accounts[o.i + 1]) :> EmptyMap)
                                        @@ results,
                                     ![p].calls = logged]
               /\ rec' = [rec EXCEPT ![p] =
                            StartRec("s_resolve", o.storage_accounts[o.i + 1],
                                     RoleDefinitionId(o.storage_accounts[o.i + 1][3],
                                                      o.storage_role_ids[1]),
                                     o.user_id)]
          ELSE /\ orc' = [orc EXCEPT ![p] =
                            Aggregate([o EXCEPT !.storage_results = results,
                                                !.calls = logged])]
               /\ rec' = [rec EXCEPT ![p] = IdleRec]
    /\ trace' = [trace EXCEPT ![p] = <<>>]
    /\ UNCHANGED <<role_assignments, vault_tag, accounts_in_rg, faults,
                   other_writes, runs, har, call>>

----------------------------------------------------------------------------
(* _normalize_guid on the characters of its argument (both managers) *)

_normalize_guid(guid_str) ==
    IF guid_str = <<>> THEN guid_str
    ELSE LET stripped == SelectSeq(guid_str, LAMBDA c : c # "-") IN
         IF Len(stripped) = 32
         THEN SubSeq(stripped, 1, 8) \o <<"-">> \o SubSeq(stripped, 9, 12) \o <<"-">>
              \o SubSeq(stripped, 13, 16) \o <<"-">> \o SubSeq(stripped, 17, 20)
              \o <<"-">> \o SubSeq(stripped, 21, 32)
         ELSE stripped

----------------------------------------------------------------------------
(* Direct calls of the helper functions, as the unit tests make them *)

\* "12345678123412341234123456789abc"
Hex32 ==
    <<"1", "2", "3", "4", "5", "6", "7", "8", "1", "2", "3", "4", "1", "2", "3", "4",
      "1", "2", "3", "4", "1", "2", "3", "4", "5", "6", "7", "8", "9", "a", "b", "c">>

\* s with a '-' after each of the positions in P
RECURSIVE Hyphenated(_, _)
Hyphenated(s, P) ==
    IF s = <<>> THEN <<>>
    ELSE LET n == Len(s) IN
         Hyphenated(SubSeq(s, 1, n - 1), P) \o <<s[n]>>
         \o (IF n \in P THEN <<"-">> ELSE <<>>)

\* the strings over {a, -} of a given length
RECURSIVE Texts(_)
Texts(n) ==
    IF n = 0 THEN {<<>>}
    ELSE {t \o <<c>> : t \in Texts(n - 1), c \in {"a", "-"}}

\* 32 digits with separators anywhere, 31 digits, and short strings
NormalizeInputs ==
    {Hyphenated(Hex32, P) : P \in SUBSET {4, 8, 12, 16, 20}}
    \cup {Hyphenated(SubSeq(Hex32, 1, 31), P) : P \in SUBSET {8, 12}}
    \cup UNION {Texts(n) : n \in 0..MaxTextLen}

Finance == <<"f", "i", "n", "a", "n", "c", "e">>
FinanceCapital == <<"F", "i", "n", "a", "n", "c", "e">>
Storage == <<"s", "t", "o", "r", "a", "g", "e">>
Stor == SubSeq(Storage, 1, 4)
St == SubSeq(Storage, 1, 2)
App == <<"a", "p", "p">>

\* storage names built from three parts, and the vault names they are tried with
NamingInputs ==
    LET parts == {<<>>, Finance, FinanceCapital, Storage, Stor, St, App}
    IN {<<a \o b \o c, v>> :
            a \in parts, b \in parts, c \in parts,
            v \in {Finance, FinanceCapital, Chars(VaultName)}}

\* role definition ids of two subscriptions for the catalog's roles and others
MappingInputs ==
    {RoleDefinitionId(sub, g) :
        sub \in {SubscriptionId, "test"},
        g \in {owner_role_id, admin_role_id, reader_role_id,
                STORAGE_ACCOUNT_CONTRIBUTOR_ROLE_ID, STORAGE_BLOB_DATA_OWNER_ROLE_ID,
                STORAGE_BLOB_DATA_CONTRIBUTOR_ROLE_ID, "unknown-role"}}

\* the accounts a resource group may hold when discovery is called directly:
\* linked by name, linked by tag, unlinked, and tagged with another spelling
FnAccountCatalog ==
    AccountCatalog \o <<Account("blob", None), Account("tmp", "KV")>>

\* the listings list_by_resource_group may return; a listing may hold the same
\* account more than once
FnInventories ==
    {[i \in 1..Len(sel) |-> FnAccountCatalog[sel[i]]] :
        sel \in {t \in UNION {[1..n -> 1..Len(FnAccountCatalog)] : n \in 0..MaxFnAccounts} :
                    \A i \in 1..(Len(t) - 1) : t[i] <= t[i + 1]}}

\* the vault, a vault named "data", and the ids that name no vault
DiscoveryInputs ==
    {VaultResourceId, [VaultResourceId EXCEPT ![9] = "data"]}
    \cup MalformedResourceIds

FnCall(fn, a, b, out) == [NoCall EXCEPT !.fn = fn, !.a = a, !.b = b, !.out = out]

FnCalls ==
    {FnCall("get_storage_role_assignments_for_vault_role", a, <<>>, None) :
        a \in MappingInputs}
    \cup {FnCall("_matches_naming_convention", ab[1], ab[2], None) : ab \in NamingInputs}
    \cup {FnCall("_normalize_guid", a, <<>>, None) : a \in NormalizeInputs}
    \cup {FnCall("discover_associated_storage_accounts", a, <<>>, out) :
            a \in DiscoveryInputs, out \in {"ok", "error"}}

\* the called function returns
FnReturn(result) ==
    /\ ~call.done
    /\ call' = [call EXCEPT !.done = TRUE, !.result = result]

Call_get_storage_role_assignments_for_vault_role ==
    /\ call.fn = "get_storage_role_assignments_for_vault_role"
    /\ FnReturn(get_storage_role_assignments_for_vault_role(call.a))
    /\ UNCHANGED <<role_assignments, vault_tag, accounts_in_rg, faults, other_writes,
                   runs, orc, rec, har, trace>>

Call_matches_naming_convention ==
    /\ call.fn = "_matches_naming_convention"
    /\ FnReturn(_matches_naming_convention(call.a, call.b))
    /\ UNCHANGED <<role_assignments, vault_tag, accounts_in_rg, faults, other_writes,
                   runs, orc, rec, har, trace>>

Call_normalize_guid ==
    /\ call.fn = "_normalize_guid"
    /\ FnReturn(_normalize_guid(call.a))
    /\ UNCHANGED <<role_assignments, vault_tag, accounts_in_rg, faults, other_writes,
                   runs, orc, rec, har, trace>>

Call_discover_associated_storage_accounts ==
    /\ call.fn = "discover_associated_storage_accounts"
    /\ FnReturn(discover_associated_storage_accounts(call.a, call.out))
    /\ trace' = [trace EXCEPT ![1] =
                    IF DiscoveryCallsInventory(call.a)
                    THEN <<Ev("list_by_resource_group", call.a, NoIdent, <<>>, 0, None,
                              call.out)>>
                    ELSE <<>>]
    /\ UNCHANGED <<role_assignments, vault_tag, accounts_in_rg, faults, other_writes,
                   runs, orc, rec, har>>

----------------------------------------------------------------------------
(* Specifications *)

InitRec ==
    /\ role_assignments \in InitialAssignmentSets
    /\ vault_tag = NoIdent
    /\ accounts_in_rg = <<>>
    /\ faults = 0
    /\ other_writes = 0
    /\ runs = 0
    /\ orc = [p \in Procs |-> IdleOrc]
    /\ rec = [p \in Procs |-> IdleRec]
    /\ har = [p \in Procs |-> IdleHar]
    /\ trace = [p \in Procs |-> <<>>]
    /\ call = NoCall

Reconcile(p) ==
    \/ V_Resolve(p)
    \/ V_List(p)
    \/ V_Create(p)
    \/ V_Cleanup(p)
    \/ S_Resolve(p)
    \/ S_List(p)
    \/ S_Create(p)

\* the tag is missing, names u1 in upper case, or names u2
TagValues == {NoIdent, Ident("guid", "u1", TRUE), U2}

Init ==
    /\ role_assignments \in {{CandidateAssignment(i, i) : i \in I} : I \in SUBSET {1, 2}}
    /\ vault_tag \in TagValues
    /\ accounts_in_rg \in Inventories
    /\ faults = 0
    /\ other_writes = 0
    /\ runs = 0
    /\ orc = [p \in Procs |-> IdleOrc]
    /\ rec = [p \in Procs |-> IdleRec]
    /\ har = [p \in Procs |-> IdleHar]
    /\ trace = [p \in Procs |-> <<>>]
    /\ call = NoCall

Orchestrate(p) ==
    \/ O_Receive(p)
    \/ O_OwnerDone(p)
    \/ O_AdminDone(p)
    \/ O_StorageDone(p)

Next ==
    \/ Orchestrate(1)
    \/ Reconcile(1)
    \/ OtherWriter

Spec == Init /\ [][Next]_vars

NextRec ==
    \/ HarnessCall(1)
    \/ Reconcile(1)
    \/ HarnessReturn(1)
    \/ OtherWriter

SpecRec == InitRec /\ [][NextRec]_vars

InitFn ==
    /\ call \in FnCalls
    /\ accounts_in_rg \in (IF call.fn = "discover_associated_storage_accounts"
                           THEN FnInventories ELSE {<<>>})
    /\ role_assignments = {}
    /\ vault_tag = NoIdent
    /\ faults = 0
    /\ other_writes = 0
    /\ runs = 0
    /\ orc = [p \in Procs |-> IdleOrc]
    /\ rec = [p \in Procs |-> IdleRec]
    /\ har = [p \in Procs |-> IdleHar]
    /\ trace = [p \in Procs |-> <<>>]

NextFn ==
    \/ Call_get_storage_role_assignments_for_vault_role
    \/ Call_matches_naming_convention
    \/ Call_normalize_guid
    \/ Call_discover_associated_storage_accounts

SpecFn == InitFn /\ [][NextFn]_vars

\* two invocations of the same reconciler with the same arguments, started
\* before either has issued a call (two instances serving the same request)
ConcurrentCall ==
    /\ \A p \in Procs : har[p].pc = "idle" /\ har[p].n = 0 /\ rec[p].pc = "idle"
    /\ \E args \in HarnessArgs :
        /\ har' = [p \in Procs |->
                      [har[p] EXCEPT !.pc = "calling",
                                     !.kind = args.kind,
                                     !.scope = args.scope,
                                     !.role_definition_id = args.role_definition_id,
                                     !.principal_id = args.principal_id,
                                     !.before = Append(@, role_assignments),
                                     !.writes = Append(@, other_writes)]]
        /\ rec' = [p \in Procs |->
                      StartRec(IF args.kind = "vault" THEN "v_resolve" ELSE "s_resolve",
                               args.scope, args.role_definition_id, args.principal_id)]
    /\ trace' = [p \in Procs |-> <<>>]
    /\ UNCHANGED <<role_assignments, vault_tag, accounts_in_rg, faults,
                   other_writes, runs, orc, call>>

NextPair ==
    \/ ConcurrentCall
    \/ Reconcile(1)
    \/ Reconcile(2)
    \/ HarnessReturn(1)
    \/ HarnessReturn(2)

SpecPair == InitRec /\ [][NextPair]_vars

\* two runs of the orchestrator for one vault and one caller, on two instances
\* of the function app.  Receiving a request reads nothing of the provider, so
\* both requests are received before either run issues its first call; from
\* there the calls of the two runs interleave freely.  The behaviours have no
\* provider or directory error (the budget of disturbances is spent from the
\* start): creates of a held identity are still answered "already exists".
InitRuns ==
    /\ role_assignments \in {{CandidateAssignment(i, i) : i \in I} : I \in SUBSET {1, 2}}
    /\ vault_tag \in TagValues
    /\ accounts_in_rg \in {inv \in Inventories : Len(inv) <= MaxConcurrentAccounts}
    /\ faults = MaxDisturbances
    /\ other_writes = 0
    /\ runs = 0
    /\ orc = [p \in Procs |-> IdleOrc]
    /\ rec = [p \in Procs |-> IdleRec]
    /\ har = [p \in Procs |-> IdleHar]
    /\ trace = [p \in Procs |-> <<>>]
    /\ call = NoCall

FirstRun ==
    /\ runs = 0
    /\ O_Receive(1)

\* the second instance receives a request of the same caller for the same vault
SecondRun ==
    /\ runs = 1
    /\ orc[1].pc = "owner" /\ rec[1].pc = "v_resolve"
    /\ O_Receive(2)
    /\ orc'[2].pc = "owner"
    /\ orc'[2].user_id = orc[1].user_id
    /\ orc'[2].resource_uri = orc[1].resource_uri

Run(p) ==
    /\ orc[2].pc # "idle"
    /\ \/ O_OwnerDone(p)
       \/ O_AdminDone(p)
       \/ O_StorageDone(p)
       \/ Reconcile(p)

NextRuns ==
    \/ FirstRun
    \/ SecondRun
    \/ Run(1)
    \/ Run(2)

SpecRuns == InitRuns /\ [][NextRuns]_vars

----------------------------------------------------------------------------
(* Properties *)

\* the events of a log with a given operation
Events(log, op) == SelectSeq(log, LAMBDA e : e.op = op)

\* no provider or directory call of the log was answered by an error
NoFaultIn(log) == \A i \in 1..Len(log) : ~IsFault(log[i].res)

\* the log's listing succeeded
ListedOk(log) == \E i \in 1..Len(log) : log[i].op = "list" /\ log[i].res = "ok"

\* the assignments the log's listing returned, and the principal they were read for
Listed(log) == UNION {log[i].listed : i \in {j \in 1..Len(log) : log[j].op = "list"}}
ListedFor(log) == (Events(log, "list")[1]).principal_id

\* the principal's assignments in a listing, by role
HeldIn(listing, principal_id, role_id) ==
    {a \in listing : a.principal_id = principal_id /\ RoleIdIn(role_id, a.role_definition_id)}

\* a run that reached aggregation
Aggregated(p) == orc[p].pc = "done" /\ orc[p].status \in {200, 500}

\* the reconciliations a run has completed, by kind
CallsOf(p, kind) == SelectSeq(orc[p].calls, LAMBDA c : c.kind = kind)

\* completed direct reconciliations of the vault reconciler for the Owner role
OwnerCalls(p) ==
    {k \in 1..har[p].n :
        har[p].kind = "vault" /\ is_owner_role(har[p].role_definition_id)}

\* C1: a run whose vault carries a CreatedByID tag that differs, ignoring case,
\* from the caller's id ends with status 403 and never calls assign_role_to_user.
C1_CreatorMismatchDenied ==
    \A p \in Procs :
        (/\ orc[p].user_id # NoIdent
         /\ vault_tag # NoIdent
         /\ Lower(vault_tag) # Lower(orc[p].user_id))
        => /\ orc[p].pc = "done"
           /\ orc[p].status = 403
           /\ orc[p].calls = <<>>

DeletesOf(log, name) == SelectSeq(log, LAMBDA e : e.op = "delete" /\ e.name = name)

\* C3: when the principal is listed with Administrator and Owner is granted at
\* the scope (its create answered by success or by an "already exists"
\* conflict), exactly one delete is issued for the Administrator assignment, and
\* a failed delete leaves the result a success.
C3_AdminDeletedOnce ==
    \A p \in Procs : \A k \in OwnerCalls(p) :
        LET log == har[p].logs[k] IN
        (/\ ListedOk(log)
         /\ \E i \in 1..Len(log) :
               log[i].op = "create" /\ log[i].res \in {"ok", "already exists"})
        => \A a \in HeldIn(Listed(log), ListedFor(log), admin_role_id) :
              LET dels == DeletesOf(log, a.name) IN
              /\ Len(dels) = 1
              /\ dels[1].res # "ok" => har[p].results[k]

\* a storage account's resource id
IsStorageScope(scope) == Len(scope) >= 8 /\ scope[7] = "Microsoft.Storage"

\* the (scope, storage role) pairs a list of scopes and a vault role call for
PairsFor(storage_accounts, vault_role_definition_id) ==
    LET ids == get_storage_role_assignments_for_vault_role(vault_role_definition_id)
    IN {<<storage_accounts[i], ids[j]>> :
            i \in 1..Len(storage_accounts), j \in 1..Len(ids)}

\* the (scope, storage role) pairs whose reconciliation a run has completed
Attempted(p) ==
    {<<c.scope, c.role_definition_id[2]>> :
        c \in {orc[p].calls[i] : i \in {j \in 1..Len(orc[p].calls) :
                                           orc[p].calls[j].kind = "storage"}}}

\* C4: at aggregation, success = ownerRoleAssigned /\ adminRoleAssigned /\
\* storageAccounts.success, storageAccounts.success is false exactly when some
\* attempted storage pair returned failure, and the status is 200 exactly when
\* success is true and 500 otherwise.
C4_AggregateIsConjunction ==
    \A p \in Procs :
        Aggregated(p) =>
            LET r == orc[p].response
                sc == CallsOf(p, "storage")
            IN /\ r.storage_success = ~(\E i \in 1..Len(sc) : ~sc[i].result)
               /\ r.success = (r.ownerRoleAssigned /\ r.adminRoleAssigned
                               /\ r.storage_success)
               /\ orc[p].status = (IF r.success THEN 200 ELSE 500)

C4_Witness ==
    \E p \in Procs :
        /\ Aggregated(p)
        /\ orc[p].response.ownerRoleAssigned
        /\ orc[p].response.adminRoleAssigned
        /\ \E i \in 1..Len(orc[p].calls) :
              orc[p].calls[i].kind = "storage" /\ ~orc[p].calls[i].result
        /\ ~orc[p].response.success
        /\ orc[p].status = 500

\* C5: the cascade reconciles, on every discovered storage scope, the roles
\* mapped from Owner when the Owner reconciliation succeeded, those mapped from
\* Administrator when Owner failed and Administrator succeeded, and nothing when
\* both failed.
C5_CascadeRoleChoice ==
    \A p \in Procs :
        (orc[p].pc = "cascade" \/ Aggregated(p)) =>
            LET vc == CallsOf(p, "vault")
                owner_def == RoleDefinitionId(orc[p].subscription_id, owner_role_id)
                admin_def == RoleDefinitionId(orc[p].subscription_id, admin_role_id)
                expected == IF vc[1].result
                            THEN PairsFor(orc[p].storage_accounts, owner_def)
                            ELSE IF vc[2].result
                            THEN PairsFor(orc[p].storage_accounts, admin_def)
                            ELSE {}
            IN /\ Attempted(p) \subseteq expected
               /\ orc[p].pc = "cascade" =>
                    <<rec[p].scope, rec[p].role_definition_id[2]>> \in expected
               /\ Aggregated(p) => Attempted(p) = expected

C5_Witness ==
    \E p \in Procs :
        /\ Aggregated(p)
        /\ ~CallsOf(p, "vault")[1].result
        /\ CallsOf(p, "vault")[2].result
        /\ Attempted(p) # {}
        /\ \A pair \in Attempted(p) : pair[2] = STORAGE_BLOB_DATA_CONTRIBUTOR_ROLE_ID

\* C6: a run that passes the creator check reconciles the vault scope exactly
\* twice, Owner first and Administrator second, the second whatever the outcome
\* of the first, and reports each outcome unchanged.
C6_BothVaultRolesAttempted ==
    \A p \in Procs :
        LET o == orc[p]
            vc == CallsOf(p, "vault")
            owner_def == RoleDefinitionId(o.subscription_id, owner_role_id)
            admin_def == RoleDefinitionId(o.subscription_id, admin_role_id)
        IN /\ o.pc = "owner" =>
                /\ o.calls = <<>>
                /\ rec[p].scope = o.resource_uri
                /\ rec[p].role_definition_id = owner_def
           /\ o.pc = "admin" =>
                /\ Len(o.calls) = 1
                /\ o.calls[1].kind = "vault"
                /\ o.calls[1].role_definition_id = owner_def
                /\ rec[p].scope = o.resource_uri
                /\ rec[p].role_definition_id = admin_def
           /\ (o.pc = "cascade" \/ Aggregated(p)) =>
                /\ Len(vc) = 2
                /\ o.calls[1] = vc[1] /\ o.calls[2] = vc[2]
                /\ vc[1].scope = o.resource_uri /\ vc[2].scope = o.resource_uri
                /\ vc[1].role_definition_id = owner_def
                /\ vc[2].role_definition_id = admin_def
           /\ Aggregated(p) =>
                /\ o.response.ownerRoleAssigned = vc[1].result
                /\ o.response.adminRoleAssigned = vc[2].result

C6_Witness ==
    \E p \in Procs :
        /\ Aggregated(p)
        /\ Len(CallsOf(p, "vault")) = 2
        /\ ~CallsOf(p, "vault")[1].result
        /\ CallsOf(p, "vault")[2].result
        /\ CallsOf(p, "vault")[2].creates = 1
        /\ orc[p].response.adminRoleAssigned
        /\ ~orc[p].response.ownerRoleAssigned

\* C7: no list, create or delete at a storage scope is issued before both
\* vault-scope reconciliations have returned.
C7_VaultBeforeStorage ==
    \A p \in Procs :
        orc[p].pc # "idle" =>
            /\ (\/ rec[p].pc \in {"s_resolve", "s_list", "s_create"}
                \/ \E i \in 1..Len(trace[p]) : IsStorageScope(trace[p][i].scope))
               => /\ orc[p].pc = "cascade"
                  /\ Len(CallsOf(p, "vault")) = 2
            /\ \A i, j \in 1..Len(orc[p].calls) :
                  (orc[p].calls[i].kind = "storage" /\ orc[p].calls[j].kind = "vault")
                  => j < i

C7_Witness ==
    \E p \in Procs :
        /\ orc[p].pc = "cascade"
        /\ Len(CallsOf(p, "vault")) = 2
        /\ \E i \in 1..Len(trace[p]) :
              /\ IsStorageScope(trace[p][i].scope)
              /\ trace[p][i].op = "create"

\* the listing holds the exact (principal, role) the reconciliation is for
ExactMatchListed(p, log) ==
    \E a \in Listed(log) :
        /\ a.principal_id = ListedFor(log)
        /\ a.role_definition_id = har[p].role_definition_id

\* the names of the principal's other assignments in the listing
OtherNames(p, log) ==
    {a.name : a \in {b \in Listed(log) :
                        /\ b.principal_id = ListedFor(log)
                        /\ b.role_definition_id # har[p].role_definition_id}}

DeletedNames(log) == {log[i].name : i \in {j \in 1..Len(log) : log[j].op = "delete"}}

C9_AdministratorException ==
    \A p \in Procs : \A k \in 1..har[p].n :
        LET log == har[p].logs[k]
            target == har[p].role_definition_id
        IN (/\ har[p].kind = "vault"
            /\ ListedOk(log)
            /\ HeldIn(Listed(log), ListedFor(log), owner_role_id) # {}) =>
              /\ (~is_owner_role(target) /\ ~is_admin_role(target)) =>
                    /\ har[p].results[k]
                    /\ Events(log, "create") = <<>>
              /\ (is_admin_role(target) /\ ~ExactMatchListed(p, log)) =>
                    /\ Len(Events(log, "create")) = 1
                    /\ Events(log, "create")[1].role_definition_id = target
                    /\ Events(log, "create")[1].principal_id = ListedFor(log)

C9_Witness ==
    \E p \in Procs : \E k \in 1..har[p].n :
        LET log == har[p].logs[k] IN
        /\ har[p].kind = "vault"
        /\ is_admin_role(har[p].role_definition_id)
        /\ ListedOk(log)
        /\ HeldIn(Listed(log), ListedFor(log), owner_role_id) # {}
        /\ ~ExactMatchListed(p, log)
        /\ Len(Events(log, "create")) = 1
        /\ Events(log, "create")[1].res = "ok"
        /\ har[p].results[k]

\* C10: when Owner is reconciled and the create is answered "already exists",
\* the reconciler returns success and issues a delete for every assignment it
\* marked redundant.
C10_ConflictStillCleansUp ==
    \A p \in Procs : \A k \in OwnerCalls(p) :
        LET log == har[p].logs[k] IN
        (\E i \in 1..Len(log) : log[i].op = "create" /\ log[i].res = "already exists")
        => /\ har[p].results[k]
           /\ OtherNames(p, log) \subseteq DeletedNames(log)

\* what the answers to a reconciliation's own calls make of it: success unless
\* the principal was not resolved, the list failed, or the create was answered
\* by an error other than "already exists" and "PrincipalNotFound"
Outcome(log) ==
    LET lists == Events(log, "list")
        creates == Events(log, "create")
    IN /\ lists # <<>>
       /\ lists[1].res = "ok"
       /\ creates # <<>> =>
            creates[1].res \in {"ok", "already exists", "PrincipalNotFound"}

\* C11: a create answered "PrincipalNotFound" makes the reconciliation of that
\* pair return success, at the vault scope and at a storage scope, although no
\* assignment was written; a list or a create answered by another error (the
\* "already exists" conflict apart, which is a success too) makes it return
\* failure; the result of a pair depends on the answers to its own calls only,
\* and the pairs after a failed one are still reconciled.
C11_FailureIsPerPair ==
    \A p \in Procs :
        /\ rec[p].pc = "returned" =>
            LET log == trace[p]
                lists == Events(log, "list")
                creates == Events(log, "create")
            IN /\ (creates # <<>> /\ creates[1].res = "PrincipalNotFound") =>
                    /\ rec[p].result
                    /\ ~Held(rec[p].scope, rec[p].principal_id,
                             rec[p].role_definition_id)
               /\ (\/ lists # <<>> /\ lists[1].res = "error"
                   \/ creates # <<>> /\ creates[1].res = "error") => ~rec[p].result
               /\ rec[p].result = Outcome(log)
        /\ Aggregated(p) =>
            Len(CallsOf(p, "storage")) =
                Len(orc[p].storage_accounts) * Len(orc[p].storage_role_ids)

C11_Witness ==
    \E p \in Procs :
        /\ orc[p].pc = "cascade"
        /\ rec[p].pc = "returned"
        /\ IsStorageScope(rec[p].scope)
        /\ Events(trace[p], "create") # <<>>
        /\ Events(trace[p], "create")[1].res = "PrincipalNotFound"
        /\ rec[p].result
        /\ ~Held(rec[p].scope, rec[p].principal_id, rec[p].role_definition_id)
        /\ orc[p].j < Len(orc[p].storage_role_ids)

\* C12: no two assignments of the provider share scope, principal and role,
\* and every create of an invocation follows a successful list of the same
\* scope, in the same invocation, that held no assignment of that principal
\* and role.
C12_NoDuplicateIdentity ==
    /\ \A a, b \in role_assignments :
          (/\ a.scope = b.scope
           /\ a.principal_id = b.principal_id
           /\ a.role_definition_id = b.role_definition_id) => a = b
    /\ \A p \in Procs : \A i \in 1..Len(trace[p]) :
          trace[p][i].op = "create" =>
              \E j \in 1..(i - 1) :
                  /\ trace[p][j].op = "list"
                  /\ trace[p][j].res = "ok"
                  /\ trace[p][j].scope = trace[p][i].scope
                  /\ \A a \in trace[p][j].listed :
                        ~(/\ a.principal_id = trace[p][i].principal_id
                          /\ a.role_definition_id = trace[p][i].role_definition_id)

C12_Witness ==
    \E p \in Procs :
        /\ runs = MaxRuns
        /\ \E i \in 1..Len(trace[p]) :
              /\ trace[p][i].op = "create"
              /\ trace[p][i].res = "ok"
              /\ is_admin_role(trace[p][i].role_definition_id)
        /\ \E a \in role_assignments :
              /\ a.principal_id = U1
              /\ is_owner_role(a.role_definition_id)

\* a direct call of a helper that has returned
Called(fn) == call.fn = fn /\ call.done

\* C13: get_storage_role_assignments_for_vault_role maps a role definition id
\* of the Owner role to [AccountContributor, BlobDataOwner], one of the
\* Administrator role to [BlobDataContributor], and any other id to [].
C13_RoleMapping ==
    Called("get_storage_role_assignments_for_vault_role") =>
        call.result =
            (IF call.a[2] = owner_role_id
             THEN <<STORAGE_ACCOUNT_CONTRIBUTOR_ROLE_ID, STORAGE_BLOB_DATA_OWNER_ROLE_ID>>
             ELSE IF call.a[2] = admin_role_id
             THEN <<STORAGE_BLOB_DATA_CONTRIBUTOR_ROLE_ID>>
             ELSE <<>>)

C13_Witness ==
    /\ Called("get_storage_role_assignments_for_vault_role")
    /\ call.a = <<"test", owner_role_id>>
    /\ call.result = <<"17d1049b-9a84-46fb-8f53-869881c3d3ab",
                       "b7e6dc6d-f1e8-4753-8033-0f276bb0955c">>

\* pattern stands in text at position i
HasAt(text, pattern, i) ==
    /\ i + Len(pattern) - 1 <= Len(text)
    /\ \A j \in 1..Len(pattern) : text[i + j - 1] = pattern[j]

\* C14: _matches_naming_convention is true exactly when the lower-cased storage
\* name contains {vault}storage, {vault}stor, stor{vault} or {vault}st of the
\* lower-cased vault name; for vault "finance", financestorage, financestor,
\* storfinance and financest match, financeappstorage and storage do not.
C14_NamingConvention ==
    Called("_matches_naming_convention") =>
        LET storage_lower == LowerChars(call.a)
            vault_lower == LowerChars(call.b)
            patterns == {vault_lower \o Storage, vault_lower \o Stor,
                         Stor \o vault_lower, vault_lower \o St}
        IN /\ call.result =
                (\E pattern \in patterns :
                    \E i \in 1..Len(storage_lower) : HasAt(storage_lower, pattern, i))
           /\ (/\ call.b = Finance
               /\ call.a \in {Finance \o Storage, Finance \o Stor, Stor \o Finance,
                              Finance \o St}) => call.result
           /\ (/\ call.b = Finance
               /\ call.a \in {Finance \o App \o Storage, Storage}) => ~call.result

C14_Witness ==
    /\ Called("_matches_naming_convention")
    /\ call.b = Finance
    /\ call.a = Finance \o St
    /\ call.result

\* C15: discovery returns the accounts of the resource group whose
\* AssociatedVault tag equals the vault name or whose name matches the naming
\* convention; when there is none and the group holds accounts, it returns all
\* of them; it returns nothing the enumeration did not hold.
C15_Discovery ==
    (/\ Called("discover_associated_storage_accounts")
     /\ call.out = "ok"
     /\ Len(call.a) = 9
     /\ call.a[7] = "Microsoft.KeyVault"
     /\ call.a[8] = "vaults") =>
        LET vault_name == call.a[9]
            enumerated == {accounts_in_rg[i] : i \in 1..Len(accounts_in_rg)}
            linked == {account \in enumerated :
                          \/ account.tags.AssociatedVault = vault_name
                          \/ _matches_naming_convention(Chars(account.name),
                                                        Chars(vault_name))}
            returned == {call.result[i] : i \in 1..Len(call.result)}
        IN /\ returned = {account.id : account \in
                            (IF linked = {} THEN enumerated ELSE linked)}
           /\ returned \subseteq {account.id : account \in enumerated}

C15_Witness ==
    /\ Called("discover_associated_storage_accounts")
    /\ call.out = "ok"
    /\ call.a = VaultResourceId
    /\ accounts_in_rg = <<Account("logs", None), Account("blob", None),
                          Account("tmp", "KV")>>
    /\ Len(call.result) = 3

\* the run's enumeration of the resource group was answered by an error
EnumerationFailed(p) ==
    \E i \in 1..Len(trace[p]) :
        trace[p][i].op = "list_by_resource_group" /\ trace[p][i].res = "error"

\* C16: when the enumeration of the resource group fails, discovery returns
\* nothing, no storage scope is reconciled, the response reports discovered = 0
\* and storageAccounts.success = true, and success is ownerRoleAssigned and
\* adminRoleAssigned.
C16_EnumerationFailure ==
    \A p \in Procs :
        EnumerationFailed(p) =>
            /\ Aggregated(p)
            /\ orc[p].storage_accounts = <<>>
            /\ CallsOf(p, "storage") = <<>>
            /\ \A i \in 1..Len(trace[p]) : ~IsStorageScope(trace[p][i].scope)
            /\ orc[p].response.discovered = 0
            /\ orc[p].response.assignments = EmptyMap
            /\ orc[p].response.storage_success
            /\ orc[p].response.success =
                  (CallsOf(p, "vault")[1].result /\ CallsOf(p, "vault")[2].result)
            /\ orc[p].status = (IF orc[p].response.success THEN 200 ELSE 500)

C16_Witness ==
    \E p \in Procs :
        /\ EnumerationFailed(p)
        /\ accounts_in_rg # <<>>
        /\ orc[p].response.discovered = 0
        /\ orc[p].response.storage_success
        /\ orc[p].response.success
        /\ orc[p].status = 200

\* the calls that leave the process: directory, access-control provider and
\* resource inventory
NetworkOps == {"lookup", "list", "create", "delete", "list_by_resource_group"}

\* C17: a request whose resourceUri is malformed (wrong segment count, or tokens
\* other than Microsoft.KeyVault / vaults at their positions) is rejected, and
\* no call to the directory, the access-control provider or the resource
\* inventory is issued for it.
C17_MalformedRejectedOffline ==
    \A p \in Procs :
        orc[p].resource_uri \in MalformedResourceIds =>
            /\ \A i \in 1..Len(trace[p]) : trace[p][i].op \notin NetworkOps
            /\ \A i \in 1..Len(orc[p].calls) :
                  /\ orc[p].calls[i].creates = 0
                  /\ orc[p].calls[i].deletes = 0
                  /\ orc[p].calls[i].lookups = <<>>
            /\ orc[p].pc = "done" => orc[p].status \in {400, 404}

\* C18: _normalize_guid returns the 8-4-4-4-12 hyphenated form for every input
\* that has 32 characters once the separators are removed, and returns every
\* input of any other length exactly as it was given.
C18_NormalizeGuid ==
    Called("_normalize_guid") =>
        LET digits == SelectSeq(call.a, LAMBDA c : c # "-") IN
        IF Len(digits) = 32
        THEN call.result = Hyphenated(digits, {8, 12, 16, 20})
        ELSE call.result = call.a

\* the answers of the directory to the name lookups of p's run so far, in order
RECURSIVE LookupsOf(_)
LookupsOf(calls) ==
    IF calls = <<>> THEN <<>>
    ELSE LookupsOf(SubSeq(calls, 1, Len(calls) - 1)) \o calls[Len(calls)].lookups

RunLookups(p) ==
    LET ls == Events(trace[p], "lookup")
    IN LookupsOf(orc[p].calls) \o [k \in 1..Len(ls) |-> ls[k].res]

\* C19: in one run the caller's identifier is resolved by a directory lookup at
\* most once; no second lookup by name is issued for a later (scope, role) pair.
C19_ResolvedOncePerRun ==
    \A p \in Procs : Len(RunLookups(p)) <= 1

\* C20: when the resolution of a non-canonical caller identifier fails (no match
\* or a directory error) the run is aborted as failed: from the pair whose
\* lookup failed onwards no create or delete is issued at any scope, also when
\* a later lookup succeeds.
C20_ResolutionFailureIsFatal ==
    \A p \in Procs :
        \A i \in 1..Len(orc[p].calls) :
            (\E k \in 1..Len(orc[p].calls[i].lookups) :
                orc[p].calls[i].lookups[k] # "found") =>
                /\ \A j \in i..Len(orc[p].calls) :
                      /\ orc[p].calls[j].creates = 0
                      /\ orc[p].calls[j].deletes = 0
                /\ Events(trace[p], "create") = <<>>
                /\ Events(trace[p], "delete") = <<>>
                /\ Aggregated(p) => orc[p].status = 500 /\ ~orc[p].response.success

\* the kind the three probe answers call for
KindFor(probes) ==
    IF \E k \in 1..3 : probes[k] = "raise" THEN "ServicePrincipal"
    ELSE IF probes[1] = "200" THEN "User"
    ELSE IF probes[2] = "200" THEN "ServicePrincipal"
    ELSE IF probes[3] = "200" THEN "Group"
    ELSE "ServicePrincipal"

\* C21: _detect_principal_type returns User if the user probe is affirmative,
\* else ServicePrincipal if the service-principal probe is, else Group if the
\* group probe is, else ServicePrincipal; when a probe raises it returns
\* ServicePrincipal, and the reconciler issues the create with that kind: a
\* create the provider accepts makes the pair succeed.
C21_PrincipalType ==
    \A p \in Procs :
        /\ \A e \in {trace[p][i] : i \in 1..Len(trace[p])} :
              e.op = "create" => e.ptype = KindFor(e.probes)
        /\ \A k \in 1..Len(har[p].logs) :
              \A e \in {har[p].logs[k][i] : i \in 1..Len(har[p].logs[k])} :
                  e.op = "create" =>
                      /\ e.ptype = KindFor(e.probes)
                      /\ e.res = "ok" => har[p].results[k]

C21_Witness ==
    \E p \in Procs : \E k \in 1..Len(har[p].logs) :
        \E i \in 1..Len(har[p].logs[k]) :
            LET e == har[p].logs[k][i] IN
            /\ e.op = "create"
            /\ e.principal_id = U2
            /\ e.probes = <<"404", "404", "raise">>
            /\ e.ptype = "ServicePrincipal"
            /\ e.res = "ok"
            /\ har[p].results[k]

\* the logical identities (scope, principal, role id) of a set of assignments
Identities(assignments) ==
    {<<a.scope, a.principal_id, a.role_definition_id[2]>> : a \in assignments}

\* the create and delete calls of a finished run
CreatesOf(p) == LET RECURSIVE Sum(_)
                    Sum(c) == IF c = <<>> THEN 0
                              ELSE Sum(SubSeq(c, 1, Len(c) - 1)) + c[Len(c)].creates
                IN Sum(orc[p].calls)

DeletesIn(p) == LET RECURSIVE Sum(_)
                    Sum(c) == IF c = <<>> THEN 0
                              ELSE Sum(SubSeq(c, 1, Len(c) - 1)) + c[Len(c)].deletes
                IN Sum(orc[p].calls)

\* a finished run for caller U1 on a vault tagged with U1's id, an empty
\* provider, one untagged account "logs" in the resource group, no error and no
\* other writer
EndToEndRun(p) ==
    /\ Aggregated(p)
    /\ orc[p].user_id = U1
    /\ orc[p].resource_uri = VaultResourceId
    /\ Lower(vault_tag) = Lower(U1)
    /\ orc[p].before = {}
    /\ accounts_in_rg = <<Account("logs", None)>>
    /\ faults = 0 /\ other_writes = 0

EndToEndEffects(p) ==
    /\ Identities(role_assignments) =
          {<<VaultResourceId, U1, owner_role_id>>,
           <<VaultResourceId, U1, admin_role_id>>,
           <<StorageResourceId("logs"), U1, STORAGE_ACCOUNT_CONTRIBUTOR_ROLE_ID>>,
           <<StorageResourceId("logs"), U1, STORAGE_BLOB_DATA_OWNER_ROLE_ID>>}
    /\ Cardinality(role_assignments) = 4
    /\ CreatesOf(p) = 4
    /\ DeletesIn(p) = 0
    /\ orc[p].status = 200
    /\ orc[p].response.success
    /\ orc[p].response.discovered = 1

\* C22: for a vault tagged CreatedByID = U, a caller resolving to U, no prior
\* assignment, one untagged storage account in the vault's resource group and
\* no provider error, the run creates Owner and Administrator for U on the
\* vault and AccountContributor and BlobDataOwner on the account and nothing
\* else, and answers success = true, isCreator = true, discovered = 1.
C22_EndToEnd ==
    \A p \in Procs :
        EndToEndRun(p) =>
            /\ EndToEndEffects(p)
            /\ orc[p].response.isCreator = "true"

C22_EffectsOnly == \A p \in Procs : EndToEndRun(p) => EndToEndEffects(p)

\* C23: the response field isCreator is true exactly when the vault carries a
\* CreatedByID tag equal, ignoring case, to the caller's id; it is not true when
\* the tag is missing.
C23_IsCreator ==
    \A p \in Procs :
        Aggregated(p) =>
            ((orc[p].response.isCreator = "true")
                <=> (vault_tag # NoIdent /\ Lower(vault_tag) = Lower(orc[p].user_id)))

\* the two vault reconciliations of a finished run, Owner then Administrator
BothVaultRolesTried(p) ==
    /\ Len(CallsOf(p, "vault")) = 2
    /\ is_owner_role(CallsOf(p, "vault")[1].role_definition_id)
    /\ is_admin_role(CallsOf(p, "vault")[2].role_definition_id)
    /\ \A k \in 1..2 : CallsOf(p, "vault")[k].scope = orc[p].resource_uri

\* C24: when the vault has no CreatedByID tag the run is not rejected for it:
\* a request that passed the token and body validation goes on to both vault
\* reconciliations, Owner and Administrator, and it can end with success = true.
C24_MissingTagProceeds ==
    \A p \in Procs :
        vault_tag = NoIdent =>
            /\ orc[p].pc = "done" => orc[p].status \in {200, 500, 400, 401}
            /\ Aggregated(p) => BothVaultRolesTried(p)
            /\ orc[p].pc \in {"admin", "cascade"} => Len(CallsOf(p, "vault")) >= 1

C24_Witness ==
    \E p \in Procs :
        /\ vault_tag = NoIdent
        /\ Aggregated(p)
        /\ BothVaultRolesTried(p)
        /\ orc[p].status = 200
        /\ orc[p].response.success
        /\ orc[p].response.isCreator = "null"

\* C25: when get_vault_info yields no result for the request's resourceUri the
\* run ends with status 404 and no assign_role_to_user call is issued.
C25_VaultInfoNotFound ==
    \A p \in Procs :
        (/\ orc[p].resource_uri # <<>>
         /\ get_vault_info(orc[p].resource_uri, "ok") = NoVaultInfo)
        => /\ orc[p].pc = "done"
           /\ orc[p].status = 404
           /\ orc[p].calls = <<>>
           /\ rec[p].pc = "idle"

\* C26: a request refused with 401 (missing or non-Bearer header, undecodable
\* or expired token, token without oid and sub) or with 400 (invalid JSON,
\* missing resourceUri or subscriptionId) ends before any manager exists: no
\* reconciliation is started and no provider, inventory or directory call is made.
C26_RefusedBeforeAnyCall ==
    \A p \in Procs :
        (orc[p].pc = "done" /\ orc[p].status \in {400, 401}) =>
            /\ orc[p].calls = <<>>
            /\ trace[p] = <<>>
            /\ rec[p].pc = "idle"
            /\ orc[p].storage_accounts = <<>>

C26_Witness ==
    \E p \in Procs :
        /\ orc[p].pc = "done" /\ orc[p].status = 401
        /\ runs = MaxRuns
        /\ role_assignments # {}
        /\ orc[p].calls = <<>>

\* C27: after a run in which every provider call succeeded, repeating the same
\* request with no other writer leaves the provider's assignments unchanged, and
\* the repeat issues no create and no delete at the vault or at a storage scope.
C27_RunIsIdempotent ==
    \A p \in Procs :
        (/\ Aggregated(p)
         /\ orc[p].repeat
         /\ faults = 0 /\ other_writes = 0)
        => /\ role_assignments = orc[p].before
           /\ CreatesOf(p) = 0
           /\ DeletesIn(p) = 0

\* the positions of a reconciler between its call and its return
ReconcilerSteps == {"v_resolve", "v_list", "v_create", "v_cleanup",
                    "s_resolve", "s_list", "s_create"}

\* a log ends with its only return event
EndsWithReturn(log, result) ==
    /\ log # <<>>
    /\ log[Len(log)].op = "return"
    /\ log[Len(log)].res = (IF result THEN "True" ELSE "False")
    /\ \A i \in 1..(Len(log) - 1) : log[i].op # "return"

\* C28: assign_role_to_user and _assign_role_to_storage_account always return a
\* boolean and never raise, whatever error the provider or the directory
\* answers on list, create, delete, lookup or classification: a call in
\* progress always has a next step, and it ends by returning True or False.
C28_ReconcilersReturnBoolean ==
    \A p \in Procs :
        /\ rec[p].pc \in {"idle", "returned"} \cup ReconcilerSteps
        /\ rec[p].result \in BOOLEAN
        /\ rec[p].pc \in ReconcilerSteps =>
              /\ ENABLED Reconcile(p)
              /\ \A i \in 1..Len(trace[p]) : trace[p][i].op # "return"
        /\ rec[p].pc = "returned" => EndsWithReturn(trace[p], rec[p].result)
        /\ \A k \in 1..Len(har[p].logs) :
              /\ har[p].results[k] \in BOOLEAN
              /\ EndsWithReturn(har[p].logs[k], har[p].results[k])

C28_Witness ==
    \E p \in Procs : \E k \in 1..Len(har[p].logs) :
        /\ har[p].kind = "storage"
        /\ \E i \in 1..Len(har[p].logs[k]) :
              /\ har[p].logs[k][i].op = "create"
              /\ har[p].logs[k][i].res = "error"
        /\ har[p].results[k] = FALSE

\* the storage reconciliations of a run for one scope and one role
PairCalls(p, scope, role_id) ==
    SelectSeq(orc[p].calls,
              LAMBDA c : /\ c.kind = "storage"
                         /\ c.scope = scope
                         /\ c.role_definition_id[2] = role_id)

\* C29: once the cascade has started, for every discovered storage scope and
\* every role of the mapped role set exactly one reconciliation is attempted,
\* and its boolean is recorded in the response under that account and that
\* role, whether or not another pair failed.
C29_EveryPairAttemptedOnce ==
    \A p \in Procs :
        (/\ Aggregated(p)
         /\ orc[p].storage_accounts # <<>>
         /\ orc[p].storage_role_ids # <<>>)
        => LET accounts == orc[p].storage_accounts
               roles == {orc[p].storage_role_ids[j] : j \in 1..Len(orc[p].storage_role_ids)}
               recorded == orc[p].response.assignments
           IN /\ DOMAIN recorded = {StorageName(accounts[i]) : i \in 1..Len(accounts)}
              /\ \A i \in 1..Len(accounts) :
                    /\ DOMAIN recorded[StorageName(accounts[i])] = roles
                    /\ \A role_id \in roles :
                          LET tried == PairCalls(p, accounts[i], role_id) IN
                          /\ Len(tried) = 1
                          /\ recorded[StorageName(accounts[i])][role_id] = tried[1].result
              /\ Len(CallsOf(p, "storage")) = Len(accounts) * Cardinality(roles)

C29_Witness ==
    \E p \in Procs :
        /\ Aggregated(p)
        /\ Len(orc[p].storage_accounts) = 2
        /\ Len(orc[p].storage_role_ids) = 2
        /\ Len(CallsOf(p, "storage")) = 4
        /\ ~CallsOf(p, "storage")[1].result
        /\ \A k \in 2..4 : CallsOf(p, "storage")[k].result
        /\ ~orc[p].response.assignments[StorageName(orc[p].storage_accounts[1])]
                                       [orc[p].storage_role_ids[1]]

\* C30: for every enumeration the inventory returns, also one that lists the
\* same account more than once, the discovery result holds each storage scope
\* at most once, and its members are the same whether the tag or the name is
\* checked first.
C30_DiscoveryDeduplicated ==
    (/\ Called("discover_associated_storage_accounts")
     /\ call.out = "ok"
     /\ Len(call.a) = 9
     /\ call.a[7] = "Microsoft.KeyVault"
     /\ call.a[8] = "vaults") =>
        LET vault_name == call.a[9]
            enumerated == {accounts_in_rg[i] : i \in 1..Len(accounts_in_rg)}
            by_name(account) ==
                _matches_naming_convention(Chars(account.name), Chars(vault_name))
            by_tag(account) == account.tags.AssociatedVault = vault_name
            name_first == {account \in enumerated :
                              by_name(account) \/ (~by_name(account) /\ by_tag(account))}
        IN /\ \A i, j \in 1..Len(call.result) :
                 i # j => call.result[i] # call.result[j]
           /\ {call.result[i] : i \in 1..Len(call.result)} =
                 {account.id : account \in
                     (IF name_first = {} THEN enumerated ELSE name_first)}

\* C31: when Owner is reconciled for a principal at a scope, the assignments
\* marked redundant and deleted are exactly the principal's Administrator
\* assignments at that scope; an assignment of the principal to a role outside
\* the vault-role catalog is neither marked nor deleted.
C31_OnlyLesserVaultRolesRemoved ==
    \A p \in Procs : \A k \in OwnerCalls(p) :
        LET log == har[p].logs[k]
            deleted == Events(log, "delete")
        IN /\ \A i \in 1..Len(deleted) : is_admin_role(deleted[i].role_definition_id)
           /\ deleted # <<>> =>
                 DeletedNames(log) =
                    {a.name : a \in HeldIn(Listed(log), ListedFor(log), admin_role_id)}

\* the create calls a run has issued for one scope and one role
RECURSIVE PairCreates(_, _, _)
PairCreates(calls, scope, role_definition_id) ==
    IF calls = <<>> THEN 0
    ELSE LET c == calls[Len(calls)]
         IN PairCreates(SubSeq(calls, 1, Len(calls) - 1), scope, role_definition_id)
            + (IF c.scope = scope /\ c.role_definition_id = role_definition_id
               THEN c.creates ELSE 0)

\* C32: no retry is built in: one reconciler invocation issues at most one
\* create, and one run issues at most one create for each (scope, role) pair,
\* whatever the provider answers.
C32_NoRetry ==
    \A p \in Procs :
        /\ Len(Events(trace[p], "create")) <= 1
        /\ \A i \in 1..Len(orc[p].calls) :
              /\ orc[p].calls[i].creates <= 1
              /\ PairCreates(orc[p].calls, orc[p].calls[i].scope,
                             orc[p].calls[i].role_definition_id) <= 1
        /\ rec[p].pc \notin {"idle", "returned"} =>
              PairCreates(orc[p].calls, rec[p].scope, rec[p].role_definition_id) = 0

C32_Witness ==
    \E p \in Procs :
        /\ Aggregated(p)
        /\ faults > 0
        /\ \E i \in 1..Len(orc[p].calls) :
              /\ orc[p].calls[i].kind = "storage"
              /\ orc[p].calls[i].creates = 1
              /\ ~orc[p].calls[i].result
        /\ ~orc[p].response.success

\* C33: discover_associated_storage_accounts called with a vault resource id
\* of fewer than 9 segments, or whose provider and type tokens are not
\* Microsoft.KeyVault / vaults, returns the empty list and issues no
\* enumeration call, whatever the resource group holds.
C33_InvalidVaultIdNoEnumeration ==
    (/\ Called("discover_associated_storage_accounts")
     /\ \/ Len(call.a) < 9
        \/ call.a[7] # "Microsoft.KeyVault"
        \/ call.a[8] # "vaults") =>
        /\ call.result = <<>>
        /\ trace[1] = <<>>

C33_Witness ==
    /\ Called("discover_associated_storage_accounts")
    /\ call.a = <<"invalid-resource-id">>
    /\ call.out = "ok"
    /\ Len(accounts_in_rg) = MaxFnAccounts
    /\ call.result = <<>>
    /\ trace[1] = <<>>

\* no other writer acted between the k-th call and its return
Undisturbed(p, k) == har[p].writes[2 * k - 1] = har[p].writes[2 * k]

\* C34: every delete a reconciliation issues comes from an Owner reconciliation
\* and targets an assignment listed at the same scope for the same principal
\* with a role definition id other than the target; assignments of another
\* principal, at another scope, or matching (principal, Owner) are not deleted.
C34_DeletesStayInFrame ==
    \A p \in Procs : \A k \in 1..Len(har[p].logs) :
        LET log == har[p].logs[k]
            deleted == Events(log, "delete")
        IN /\ \A i \in 1..Len(deleted) :
                 /\ har[p].kind = "vault"
                 /\ is_owner_role(har[p].role_definition_id)
                 /\ deleted[i].scope = har[p].scope
                 /\ \E a \in Listed(log) :
                       /\ a.name = deleted[i].name
                       /\ a.scope = har[p].scope
                       /\ a.principal_id = ListedFor(log)
                       /\ a.principal_id = deleted[i].principal_id
                       /\ a.role_definition_id # har[p].role_definition_id
           /\ Undisturbed(p, k) =>
                 \A a \in har[p].before[k] :
                     (\/ ~ListedOk(log)
                      \/ a.scope # har[p].scope
                      \/ a.principal_id # ListedFor(log)
                      \/ a.role_definition_id = har[p].role_definition_id)
                     => a \in har[p].after[k]

C34_Witness ==
    \E p \in Procs : \E k \in OwnerCalls(p) :
        /\ Undisturbed(p, k)
        /\ \E i \in 1..Len(har[p].logs[k]) :
              /\ har[p].logs[k][i].op = "delete"
              /\ har[p].logs[k][i].res = "ok"
        /\ \E a \in har[p].before[k] : a.principal_id = U2
        /\ \E a \in har[p].before[k] :
              /\ a.principal_id = U1
              /\ is_owner_role(a.role_definition_id)
              /\ a \in har[p].after[k]

\* C36: a delete of a redundant assignment is issued only after the Owner
\* assignment of the principal at the scope was found in the listing or created
\* successfully in the same invocation; so, with no other writer, a principal
\* that held a role at a scope before a reconciliation holds one after it, also
\* when the create fails or is answered by a conflict or PrincipalNotFound.
C36_NeverLeftWithoutRole ==
    \A p \in Procs : \A k \in 1..Len(har[p].logs) :
        LET log == har[p].logs[k] IN
        /\ \A i \in 1..Len(log) :
              log[i].op = "delete" =>
                  \E j \in 1..(i - 1) :
                      \/ /\ log[j].op = "list"
                         /\ \E a \in log[j].listed :
                               /\ a.principal_id = log[j].principal_id
                               /\ is_owner_role(a.role_definition_id)
                      \/ /\ log[j].op = "create"
                         /\ log[j].res = "ok"
                         /\ is_owner_role(log[j].role_definition_id)
        /\ Undisturbed(p, k) =>
              \A a \in har[p].before[k] :
                  \E b \in har[p].after[k] :
                      b.scope = a.scope /\ b.principal_id = a.principal_id

C36_Witness ==
    \E p \in Procs : \E k \in OwnerCalls(p) :
        LET log == har[p].logs[k] IN
        /\ Undisturbed(p, k)
        /\ HeldIn(Listed(log), ListedFor(log), admin_role_id) # {}
        /\ \E i \in 1..Len(log) :
              log[i].op = "create" /\ log[i].res \in {"PrincipalNotFound", "error"}
        /\ Events(log, "delete") = <<>>
        /\ HeldIn(har[p].after[k], ListedFor(log), admin_role_id) # {}
        /\ HeldIn(har[p].after[k], ListedFor(log), owner_role_id) = {}

\* C35: storage-scope reconciliation never issues a delete: every step of a
\* run keeps each assignment at a storage scope, adds assignments only at a
\* storage scope the run discovered, and logs no delete at a storage scope.
C35_StorageScopesOnlyGrow ==
    [][other_writes' = other_writes =>
        /\ \A a \in role_assignments :
              IsStorageScope(a.scope) => a \in role_assignments'
        /\ \A a \in role_assignments' \ role_assignments :
              IsStorageScope(a.scope) =>
                  \E p \in Procs :
                      /\ orc[p].pc = "cascade"
                      /\ \E i \in 1..Len(orc[p].storage_accounts) :
                            orc[p].storage_accounts[i] = a.scope
        /\ \A p \in Procs : \A i \in 1..Len(trace'[p]) :
              trace'[p][i].op = "delete" => ~IsStorageScope(trace'[p][i].scope)]_vars

C35_Witness ==
    \E p \in Procs :
        /\ Aggregated(p)
        /\ \E c \in {orc[p].calls[i] : i \in 1..Len(orc[p].calls)} :
              c.kind = "storage" /\ c.creates = 1
        /\ \A i \in 1..Len(orc[p].storage_accounts) :
              orc[p].storage_accounts[i] # StorageResourceId("kvst")
        /\ \E a \in role_assignments : a.scope = StorageResourceId("kvst")
        /\ DeletesIn(p) > 0

\* a finished run for the vault whose caller resolves to u1 and passes the
\* creator check, with no provider or directory error and no other writer
CleanRun(p) ==
    /\ Aggregated(p)
    /\ orc[p].resource_uri = VaultResourceId
    /\ orc[p].user_id \in {U1, Alice}
    /\ vault_tag = NoIdent \/ Lower(vault_tag) = Lower(orc[p].user_id)
    /\ faults = 0 /\ other_writes = 0

\* C39: from every initial provider state, a run that passes the creator check
\* and meets no provider or directory error ends with the caller holding Owner
\* and Administrator at the vault scope and AccountContributor and
\* BlobDataOwner at every discovered storage scope, and reports success = true.
C39_CleanRunConverges ==
    \A p \in Procs :
        CleanRun(p) =>
            /\ Held(VaultResourceId, U1, RoleDefinitionId(SubscriptionId, owner_role_id))
            /\ Held(VaultResourceId, U1, RoleDefinitionId(SubscriptionId, admin_role_id))
            /\ \A i \in 1..Len(orc[p].storage_accounts) :
                  \A g \in {STORAGE_ACCOUNT_CONTRIBUTOR_ROLE_ID,
                            STORAGE_BLOB_DATA_OWNER_ROLE_ID} :
                      Held(orc[p].storage_accounts[i], U1,
                           RoleDefinitionId(SubscriptionId, g))
            /\ orc[p].response.discovered = Len(orc[p].storage_accounts)
            /\ orc[p].response.success
            /\ orc[p].status = 200

C39_Witness ==
    \E p \in Procs :
        /\ CleanRun(p)
        /\ orc[p].user_id = Alice
        /\ Identities(orc[p].before) = {<<VaultResourceId, U1, admin_role_id>>}
        /\ Len(orc[p].storage_accounts) = MaxAccounts
        /\ DeletesIn(p) = 1
        /\ orc[p].response.success

\* both invocations of a concurrent pair have returned, and no call of either
\* was answered with a fault
PairReturned ==
    /\ \A p \in Procs : har[p].n = 1 /\ har[p].pc = "idle" /\ orc[p].pc = "idle"
    /\ \A p \in Procs : NoFaultIn(har[p].logs[1])
    /\ faults = 0

\* the provider's assignments with the identity an invocation reconciled
PairIdentity(p) ==
    {a \in role_assignments :
        /\ a.scope = har[p].scope
        /\ a.principal_id = ListedFor(har[p].logs[1])
        /\ a.role_definition_id = har[p].role_definition_id}

\* the invocation returned at the rule for a lesser role of an Owner
SkippedAsLesser(p) ==
    /\ har[p].kind = "vault"
    /\ skip_lesser_role(Listed(har[p].logs[1]), ListedFor(har[p].logs[1]),
                        har[p].role_definition_id)

\* C37 (as stated): after two concurrent reconciliations of the same (scope,
\* role, principal), the provider holds exactly one assignment of that
\* identity and both reconciliations returned success.
C37_ExactlyOneForEveryRole ==
    PairReturned =>
        \A p \in Procs : har[p].results[1] /\ Cardinality(PairIdentity(p)) = 1

\* C37: after two concurrent reconciliations of the same (scope, role,
\* principal), with creates of a held identity answered "already exists" and
\* no fault, both reconciliations returned success, and the provider holds
\* exactly one assignment of that identity unless the reconciliations were
\* skipped because the principal holds Owner and the role is a lesser role
\* other than Administrator (then it holds none beyond what it held before).
C37_ConcurrentPairConverges ==
    PairReturned =>
        \A p \in Procs :
            /\ har[p].results[1]
            /\ ~SkippedAsLesser(p) => Cardinality(PairIdentity(p)) = 1
            /\ SkippedAsLesser(p) =>
                  /\ Events(har[p].logs[1], "create") = <<>>
                  /\ \A a \in PairIdentity(p) : a \in har[p].before[1]

\* both invocations listed before either created; one create was accepted
\* and the other answered "already exists"
C37_Witness ==
    /\ PairReturned
    /\ \E p, q \in Procs :
        /\ p # q
        /\ \E i \in 1..Len(har[p].logs[1]) :
              har[p].logs[1][i].op = "create" /\ har[p].logs[1][i].res = "ok"
        /\ \E i \in 1..Len(har[q].logs[1]) :
              /\ har[q].logs[1][i].op = "create"
              /\ har[q].logs[1][i].res = "already exists"
        /\ har[p].results[1] /\ har[q].results[1]
        /\ Cardinality(PairIdentity(p)) = 1

\* both concurrent runs have completed, for the same vault and the same caller
BothRunsDone ==
    /\ \A p \in Procs :
        /\ Aggregated(p)
        /\ orc[p].resource_uri = VaultResourceId
        /\ orc[p].user_id \in {U1, Alice}
    /\ orc[1].user_id = orc[2].user_id
    /\ other_writes = 0

\* C38: once two concurrent runs for the same vault and the same caller have
\* completed, with no provider error other than "already exists" conflicts, the
\* caller holds both Owner and Administrator at the vault scope.
C38_ConcurrentRunsKeepAdministrator ==
    BothRunsDone =>
        /\ Held(VaultResourceId, U1, RoleDefinitionId(SubscriptionId, owner_role_id))
        /\ Held(VaultResourceId, U1, RoleDefinitionId(SubscriptionId, admin_role_id))

\* the caller held Administrator alone; both runs listed it before either
\* deleted it, each issued a delete, and both completed
C38_Witness ==
    /\ BothRunsDone
    /\ \A p \in Procs :
        /\ Identities(orc[p].before) = {<<VaultResourceId, U1, admin_role_id>>}
        /\ DeletesIn(p) >= 1
    /\ Held(VaultResourceId, U1, RoleDefinitionId(SubscriptionId, admin_role_id))
====
